---- MODULE Spec2Model ----
(***************************************************************************)
(* Pickaxe (src/minedatabase/pickaxe.py): the compound/reaction registry,  *)
(* rule application, generation-by-generation expansion, similarity        *)
(* filtering, cofactor-redundancy collapse and pruning.                    *)
(*                                                                         *)
(* Structures are abstract canonical SMILES strings.  The structure        *)
(* toolkit (RDKit) is a fixed table: atom counts, template application,    *)
(* SMARTS matching and fingerprint similarity (scores in tenths).          *)
(***************************************************************************)
EXTENDS Integers, Sequences, FiniteSets, TLC

VARIABLES
    operators,          \* self.operators: names of the loaded rules, in load order
    coreactants,        \* self.coreactants: name -> [smi, id]
    compounds,          \* self.compounds: id -> compound record
    cpd_keys,           \* the keys of self.compounds in insertion order
    reactions,          \* self.reactions: id -> reaction record
    generation,         \* self.generation
    partial_operators,  \* self.partial_operators: ordered <<key, bindings>> entries
    tani_filter,        \* self.tani_filter
    increasing_tani,    \* self.increasing_tani
    crit_tani,          \* self.crit_tani: [isList, val]
    mcs_filter,         \* self.mcs_filter
    crit_mcs,           \* self.crit_mcs: [isList, val]
    target_smiles,      \* self.target_smiles (= the structures behind self.target_fps)
    num_workers,        \* transform_all argument
    max_generations,    \* transform_all argument
    compound_smiles,    \* transform_all: the structures selected for this round
    white_list,         \* the whitelist handed to prune_network
    fragmented_mols,    \* self.fragmented_mols
    Reactions_predicted, \* the Reactions_predicted field of each operator, by Name
    pc,                 \* position in the run script
    last                \* what the last step did (observation only):
                        \* [step, removed, hit]

vars == <<operators, coreactants, compounds, cpd_keys, reactions, generation,
          partial_operators, tani_filter, increasing_tani, crit_tani,
          mcs_filter, crit_mcs,
          target_smiles, num_workers, max_generations, compound_smiles,
          white_list, fragmented_mols, Reactions_predicted, pc, last>>

config == <<operators, coreactants, partial_operators, tani_filter,
            increasing_tani, crit_tani, mcs_filter, crit_mcs, target_smiles>>

-----------------------------------------------------------------------------
(* Bounds *)

MaxGen == 2         \* largest max_generations handed to transform_all
MaxWhite == 1       \* largest whitelist handed to prune_network

-----------------------------------------------------------------------------
(* Sequence helpers *)

\* the members of S in the order rank gives them
RECURSIVE Ranked(_, _)
Ranked(rank, S) ==
    IF rank = <<>> THEN <<>>
    ELSE IF Head(rank) \in S THEN <<Head(rank)>> \o Ranked(Tail(rank), S)
    ELSE Ranked(Tail(rank), S)

Range(s) == {s[i] : i \in DOMAIN s}

Count(s, x) == Cardinality({i \in DOMAIN s : s[i] = x})

NoDup(s) == \A i, j \in DOMAIN s : s[i] = s[j] => i = j

\* the distinct elements of s in order of first occurrence (dict key order)
RECURSIVE Dedup(_)
Dedup(s) ==
    IF s = <<>> THEN <<>>
    ELSE LET front == SubSeq(s, 1, Len(s) - 1)
             x == s[Len(s)]
         IN IF x \in Range(front) THEN Dedup(front) ELSE Append(Dedup(front), x)

\* list.remove(x) guarded by "if x in list": drops the first occurrence
RECURSIVE Remove(_, _)
Remove(s, x) ==
    IF s = <<>> THEN <<>>
    ELSE IF Head(s) = x THEN Tail(s)
    ELSE <<Head(s)>> \o Remove(Tail(s), x)

\* every order in which the members of a finite set can be visited
RECURSIVE Perms(_)
Perms(S) ==
    IF S = {} THEN {<<>>}
    ELSE UNION {{<<x>> \o p : p \in Perms(S \ {x})} : x \in S}

RECURSIVE SumSeq(_)
SumSeq(s) == IF s = <<>> THEN 0 ELSE Head(s) + SumSeq(Tail(s))

-----------------------------------------------------------------------------
(* The structure toolkit and the input files *)

Elements == {"C", "O"}

\* utils._getatom_count: element -> count of a structure
AtomCount(smi) ==
    CASE smi = "A"   -> [C |-> 1, O |-> 0]
      [] smi = "I"   -> [C |-> 1, O |-> 0]
      [] smi = "W"   -> [C |-> 0, O |-> 1]
      [] smi = "B"   -> [C |-> 1, O |-> 1]
      [] smi = "A.W" -> [C |-> 1, O |-> 1]
      [] smi = "G"   -> [C |-> 1, O |-> 2]
      [] smi = "D"   -> [C |-> 2, O |-> 0]
      [] smi = "F"   -> [C |-> 2, O |-> 1]
      [] smi = "Q"   -> [C |-> 1, O |-> 0]
      [] smi = "P"   -> [C |-> 0, O |-> 2]
      [] OTHER       -> [C |-> 0, O |-> 0]

\* '.' in mol_smiles
Fragmented(smi) == smi = "A.W"

\* AllChem.MolFromSmiles(compound_smiles) gives a mol: "Q" is a structure
\* whose SMILES, as written when it was loaded, has no valid parse
MolFromSmiles(smi) == smi # "Q"

\* AllChem.RemoveHs / SanitizeMol succeed
Sanitizable(smi) == TRUE

\* the lines of a coreactant file: name and structure
H2O == [name |-> "H2O", smi |-> "W"]

CO == [name |-> "CO", smi |-> "I"]

\* the rows of a rule file, by row: Name, Reactants and Products role lists.
\* A loaded operator is named by its row; R1b is a second row with the Name
\* R1, R8 a row whose template has two reactant patterns for one role, R9 a
\* row with a role that is no coreactant, R10 a row with a coreactant between
\* two 'Any' reactants, R1_x a row whose Name holds an underscore
RuleFile(name) ==
    CASE name = "R1" -> [Name |-> "R1", Reactants |-> <<"Any", "H2O">>, Products |-> <<"Any">>]
      [] name = "R2" -> [Name |-> "R2", Reactants |-> <<"Any", "H2O">>, Products |-> <<"Any">>]
      [] name = "R3" -> [Name |-> "R3", Reactants |-> <<"Any">>, Products |-> <<"Any", "Any">>]
      [] name = "R4" -> [Name |-> "R4", Reactants |-> <<"Any">>, Products |-> <<"Any", "H2O">>]
      [] name = "R5" -> [Name |-> "R5", Reactants |-> <<"Any", "Any">>, Products |-> <<"Any">>]
      [] name = "R6" -> [Name |-> "R6", Reactants |-> <<"Any", "Any">>, Products |-> <<"Any">>]
      [] name = "R7" -> [Name |-> "R7", Reactants |-> <<"Any">>, Products |-> <<"Any", "Any">>]
      [] name = "R1b" -> [Name |-> "R1", Reactants |-> <<"Any">>, Products |-> <<"Any">>]
      [] name = "R8" -> [Name |-> "R8", Reactants |-> <<"Any">>, Products |-> <<"Any">>]
      [] name = "R9" -> [Name |-> "R9", Reactants |-> <<"Any", "NADH">>, Products |-> <<"Any">>]
      [] name = "R1_x" -> [Name |-> "R1_x", Reactants |-> <<"Any", "H2O">>,
                           Products |-> <<"Any">>]
      [] name = "R10" -> [Name |-> "R10", Reactants |-> <<"Any", "H2O", "Any">>,
                          Products |-> <<"Any">>]

\* rxn.GetNumReactantTemplates() and rxn.GetNumProductTemplates() of a row's SMARTS
Templates(name) ==
    IF name = "R8" THEN [reactants |-> 2, products |-> 1]
    ELSE [reactants |-> Len(RuleFile(name).Reactants), products |-> Len(RuleFile(name).Products)]

\* the coreactant list and rule list a run may be constructed with
Libraries ==
    {[coreactant_list |-> <<H2O>>, rule_list |-> <<"R1">>],
     [coreactant_list |-> <<H2O>>, rule_list |-> <<"R1", "R8">>],
     [coreactant_list |-> <<H2O>>, rule_list |-> <<"R1", "R1_x">>],
     [coreactant_list |-> <<H2O>>, rule_list |-> <<"R1", "R1b", "R2">>],
     [coreactant_list |-> <<H2O>>, rule_list |-> <<"R1", "R9", "R2">>],
     [coreactant_list |-> <<H2O, CO>>,
      rule_list |-> <<"R1", "R2", "R3", "R4", "R5", "R6", "R7">>]}

\* rule[0].RunReactants(reactant_mols): the candidate product sets, in order
RunReactants(name, mols) ==
    CASE name = "R1" /\ mols = <<"A", "W">> -> << <<"B">> >>
      [] name = "R1" /\ mols = <<"B", "W">> -> << <<"G">> >>
      [] name = "R1" /\ mols = <<"D", "W">> -> << <<"F">> >>
      [] name = "R1_x" /\ mols = <<"A", "W">> -> << <<"B">> >>
      [] name = "R2" /\ mols = <<"A", "W">> -> << <<"B">>, <<"D">>, <<"A.W">> >>
      [] name = "R3" /\ mols = <<"B">>      -> << <<"A", "W">> >>
      [] name = "R3" /\ mols = <<"G">>      -> << <<"B", "W">> >>
      [] name = "R4" /\ mols = <<"B">>      -> << <<"A", "W">> >>
      [] name = "R4" /\ mols = <<"P">>      -> << <<"W", "W">> >>
      [] name = "R5" /\ mols = <<"A", "A">> -> << <<"D">> >>
      [] name = "R5" /\ mols = <<"A", "B">> -> << <<"F">> >>
      [] name = "R6" /\ mols = <<"A", "B">> -> << <<"F">> >>
      [] name = "R7" /\ mols = <<"B">>      -> << <<"I", "W">> >>
      [] OTHER -> <<>>

\* the reactant fragments of a rule's SMARTS, one per reactant position
ind_SMARTS(name) ==
    CASE name = "R5" -> <<"p5a", "p5b">>
      [] name = "R6" -> <<"p6a", "p6b">>
      [] name = "R10" -> <<"p10a", "p10w", "p10b">>
      [] OTHER -> <<>>

\* AllChem.QuickSmartsMatch(compound_smiles, ind_SMARTS).  The fragments are
\* the rule's reactant text with every parenthesis removed (load_partial_
\* operators), so a fragment is not the pattern the rule's template compiles:
\* p6a does not match A although RunReactants("R6", <<"A", "B">>) succeeds.
QuickSmartsMatch(smi, frag) ==
    \/ frag = "p5a" /\ smi = "A"
    \/ frag = "p5b" /\ smi = "B"
    \/ frag = "p6b" /\ smi = "B"

\* the mapped-reaction file: rule id and the exact reactants of the mapping
MappedReactions ==
    << [rule |-> "R5_1", base |-> "R5", exact |-> <<"A", "B">>],
       [rule |-> "R5_2", base |-> "R5", exact |-> <<"B", "D">>],
       [rule |-> "R6_1", base |-> "R6", exact |-> <<"A", "B">>] >>

\* the starting-compound files a run may load; P is a structure that R4
\* splits into water (as its 'Any' product) and the coreactant water
CompoundFiles ==
    {<<"A">>, <<"B">>, <<"A", "B">>, <<"A", "A">>, <<"A", "A.W">>, <<"A", "Q">>, <<"P">>}

\* the target file
TargetFile == <<"G", "F">>

\* the target files a run may name: the two targets, a file whose only row
\* is a disconnected structure, the single target F, or the single target I
\* (a structure that only a two-product rule makes)
TargetFiles == {TargetFile, <<"A.W">>, <<"F">>, <<"I">>}

\* the target_compound_file argument: a file, or None
TargetArgs ==
    {[given |-> TRUE, rows |-> t] : t \in TargetFiles} \cup {[given |-> FALSE, rows |-> <<>>]}

\* AllChem.DataStructs.FingerprintSimilarity(fp1, fp2), in tenths
FingerprintSimilarity(smi, target) ==
    CASE smi = "A" -> (IF target = "G" THEN 3 ELSE 8)
      [] smi = "B" -> 2
      [] smi = "I" -> (IF target = "I" THEN 10 ELSE 1)
      [] smi = "G" -> (IF target = "G" THEN 10 ELSE 2)
      [] smi = "D" -> (IF target = "G" THEN 1 ELSE 7)
      [] smi = "F" -> (IF target = "G" THEN 2 ELSE 10)
      [] OTHER -> 0

\* get_mcs_overlap(mol, target_mol), in tenths
get_mcs_overlap(smi, target) ==
    CASE smi = "A" -> 5
      [] smi = "B" -> (IF target = "G" THEN 8 ELSE 4)
      [] smi = "I" -> (IF target = "I" THEN 10 ELSE 3)
      [] smi = "G" -> (IF target = "G" THEN 10 ELSE 5)
      [] smi = "D" -> 6
      [] smi = "F" -> (IF target = "G" THEN 6 ELSE 10)
      [] OTHER -> 0

\* the thresholds a run may be configured with: a scalar, or one value per generation
CritChoices ==
    { [isList |-> FALSE, scalar |-> 2, list |-> <<>>],
      [isList |-> TRUE,  scalar |-> 0,
       list |-> [g \in 1..(MaxGen + 1) |-> IF g = 1 THEN 2 ELSE 7]] }

\* crit_mcs as a run may give it: a scalar, or one value per generation
McsChoices ==
    { [isList |-> FALSE, scalar |-> 5, list |-> <<>>],
      [isList |-> TRUE,  scalar |-> 0,
       list |-> [g \in 1..(MaxGen + 1) |-> IF g = 1 THEN 5 ELSE 8]] }

\* the default of crit_tani and crit_mcs
NoCrit == [isList |-> FALSE, scalar |-> 0, list |-> <<>>]

\* the filter arguments a run may hand to load_target_and_filters
FilterChoices ==
    {[tani_filter |-> TRUE, crit_tani |-> c, increasing_tani |-> i,
      mcs_filter |-> FALSE, crit_mcs |-> NoCrit] : c \in CritChoices, i \in BOOLEAN}
    \cup {[tani_filter |-> FALSE, crit_tani |-> NoCrit, increasing_tani |-> FALSE,
           mcs_filter |-> TRUE, crit_mcs |-> m] : m \in McsChoices}
    \cup {[tani_filter |-> TRUE, crit_tani |-> NoCrit, increasing_tani |-> FALSE,
           mcs_filter |-> TRUE, crit_mcs |-> m] : m \in {c \in McsChoices : c.isList}}

-----------------------------------------------------------------------------
(* Identity *)

\* utils.compound_hash: the id namespace of each compound type
compound_hash(smi, cpd_type) ==
    <<(IF cpd_type = "Coreactant" THEN "X"
       ELSE IF cpd_type = "Target Compound" THEN "T" ELSE "C"), smi>>

startswith(id, p) == id[1] = p

\* a half reaction as the multiset of its (stoichiometry, id) pairs
HalfKey(half) == [p \in Range(half) |-> Count(half, p)]

\* utils.rxn2hash on the (stoichiometry, id) pairs of both sides
rxn2hash(reactants, products) == <<"R", HalfKey(reactants), HalfKey(products)>>

Ids(half) == {half[i][2] : i \in DOMAIN half}

-----------------------------------------------------------------------------
(* Pickaxe._gen_compound / _add_compound *)

Pickaxe_gen_compound(smi, cpd_type, gen) ==
    [_id |-> compound_hash(smi, cpd_type), SMILES |-> smi, Type |-> cpd_type,
     Generation |-> gen, Reactant_in |-> <<>>, Product_of |-> <<>>,
     Expand |-> cpd_type \in {"Predicted", "Starting Compound"}, last_tani |-> 0]

_add_compound(cpds, smi, cpd_type, gen) ==
    LET cpd_id == compound_hash(smi, cpd_type)
    IN IF cpd_id \notin DOMAIN cpds
       THEN [c \in DOMAIN cpds \cup {cpd_id} |->
               IF c = cpd_id THEN Pickaxe_gen_compound(smi, cpd_type, gen) ELSE cpds[c]]
       ELSE cpds

RECURSIVE AddAll(_, _, _, _)
AddAll(cpds, smis, cpd_type, gen) ==
    IF smis = <<>> THEN cpds
    ELSE AddAll(_add_compound(cpds, Head(smis), cpd_type, gen), Tail(smis), cpd_type, gen)

-----------------------------------------------------------------------------
(* _run_reaction *)

\* _run_reaction._gen_compound: None for a structure that cannot be sanitized
\* or that has more than one fragment
_gen_compound_ok(mol) == Sanitizable(mol) /\ ~Fragmented(mol)

_gen_compound_stale(mol, local_cpds, gen) ==
    [_id |-> compound_hash(mol, "Predicted"), SMILES |-> mol, Type |-> "Predicted",
     Generation |-> gen - 1, Reactant_in |-> <<>>, Product_of |-> <<>>,
     Expand |-> TRUE, last_tani |-> 0]

_gen_compound_scored(mol, local_cpds, gen) ==
    LET cpd_id == compound_hash(mol, "Predicted")
    IN IF cpd_id \notin DOMAIN local_cpds
       THEN [_id |-> cpd_id, SMILES |-> mol, Type |-> "Predicted",
             Generation |-> gen, Reactant_in |-> <<>>, Product_of |-> <<>>,
             Expand |-> TRUE, last_tani |-> 9]
       ELSE local_cpds[cpd_id]

_gen_compound(mol, local_cpds, gen) ==
    LET cpd_id == compound_hash(mol, "Predicted")
    IN IF cpd_id \notin DOMAIN local_cpds
       THEN [_id |-> cpd_id, SMILES |-> mol, Type |-> "Predicted",
             Generation |-> gen, Reactant_in |-> <<>>, Product_of |-> <<>>,
             Expand |-> TRUE, last_tani |-> 0]
       ELSE local_cpds[cpd_id]

ZipLen(a, b) == IF Len(a) < Len(b) THEN Len(a) ELSE Len(b)

\* is_atom_balanced, on the two Counters
is_atom_balanced_always(reactant_atoms, product_atoms) == TRUE

is_atom_balanced(reactant_atoms, product_atoms) ==
    \A e \in Elements : reactant_atoms[e] = product_atoms[e]

\* _run_reaction._make_half_rxn: ok is false for (None, None); half lists
\* (stoich, id) in order of first occurrence; cpds holds the records
_make_half_rxn(mol_list, rules, local_cpds, gen) ==
    LET n == ZipLen(mol_list, rules)
        slot_id(i) == IF rules[i] = "Any"
                      THEN compound_hash(mol_list[i], "Predicted")
                      ELSE coreactants[rules[i]].id
        ids == [i \in 1..n |-> slot_id(i)]
        keys == Dedup(ids)
        half == [k \in 1..Len(keys) |-> <<Count(ids, keys[k]), keys[k]>>]
    IN [ok |-> \A i \in 1..n : rules[i] = "Any" => _gen_compound_ok(mol_list[i]),
        half |-> half,
        cpds |-> [i \in {j \in 1..n : rules[j] = "Any"} |->
                     _gen_compound(mol_list[i], local_cpds, gen)],
        atom_counts |-> [e \in Elements |->
            SumSeq([k \in 1..Len(half) |-> half[k][1] * AtomCount(half[k][2][2])[e]])]]

\* one candidate product set of _run_reaction's loop
RunCandidate(rule_name, reactants, product_mols, local, gen) ==
    LET products == _make_half_rxn(product_mols, RuleFile(rule_name).Products, local.cpds, gen)
        rhash == rxn2hash(reactants.half, products.half)
        new_ids == {products.cpds[i]._id : i \in DOMAIN products.cpds}
        rec(c) == products.cpds[CHOOSE i \in DOMAIN products.cpds : products.cpds[i]._id = c]
    IN IF ~products.ok \/ products.half = <<>> THEN local
       ELSE IF ~is_atom_balanced(reactants.atom_counts, products.atom_counts) THEN local
       ELSE [cpds |-> [c \in DOMAIN local.cpds \cup new_ids |->
                          IF c \in new_ids THEN rec(c) ELSE local.cpds[c]],
             rxns |-> IF \E k \in DOMAIN local.rxns : local.rxns[k]._id = rhash
                      THEN [k \in DOMAIN local.rxns |->
                              IF local.rxns[k]._id = rhash
                              THEN [local.rxns[k] EXCEPT !.Operators = @ \cup {rule_name}]
                              ELSE local.rxns[k]]
                      ELSE Append(local.rxns,
                                  [_id |-> rhash, Reactants |-> reactants.half,
                                   Products |-> products.half, Operators |-> {rule_name},
                                   HasPartial |-> FALSE, Partial |-> {}])]

RECURSIVE RunCandidates(_, _, _, _, _)
RunCandidates(rule_name, reactants, product_sets, local, gen) ==
    IF product_sets = <<>> THEN local
    ELSE RunCandidates(rule_name, reactants, Tail(product_sets),
                       RunCandidate(rule_name, reactants, Head(product_sets), local, gen), gen)

\* local is [cpds: id -> record, rxns: ordered records]
_run_reaction(rule_name, reactant_mols, local, gen) ==
    LET reactants == _make_half_rxn(reactant_mols, RuleFile(rule_name).Reactants, local.cpds, gen)
    IN IF ~reactants.ok \/ reactants.half = <<>> THEN local
       ELSE RunCandidates(rule_name, reactants, RunReactants(rule_name, reactant_mols), local, gen)

EmptyLocal == [cpds |-> <<>>, rxns |-> <<>>]

-----------------------------------------------------------------------------
(* Full operators *)

\* the reactant structures of a full operator: the input in every 'Any' slot
FullReactantMols(rule_name, smi) ==
    [i \in DOMAIN RuleFile(rule_name).Reactants |->
        IF RuleFile(rule_name).Reactants[i] = "Any" THEN smi
        ELSE coreactants[RuleFile(rule_name).Reactants[i]].smi]

RECURSIVE FullLoop(_, _, _, _)
FullLoop(ops, smi, local, gen) ==
    IF ops = <<>> THEN local
    ELSE FullLoop(Tail(ops), smi,
                  _run_reaction(Head(ops), FullReactantMols(Head(ops), smi), local, gen), gen)

\* the delta of one input structure
_transform_ind_compound_with_full(smi, gen) == FullLoop(operators, smi, EmptyLocal, gen)

\* new_cpds_master.update(new_cpds)
DictUpdate(d, e) == [k \in DOMAIN d \cup DOMAIN e |-> IF k \in DOMAIN e THEN e[k] ELSE d[k]]

RxnIds(rxns) == {rxns[k]._id : k \in DOMAIN rxns}

RxnById(rxns, rid) == rxns[CHOOSE k \in DOMAIN rxns : rxns[k]._id = rid]

MasterKeepFirst_last(master_rxns, new_rxns) == new_rxns

\* the master loop over one delta's reactions: a reaction already in the
\* master is left as it is (the result of .union is dropped)
RECURSIVE MasterKeepFirst(_, _)
MasterKeepFirst(master_rxns, new_rxns) ==
    IF new_rxns = <<>> THEN master_rxns
    ELSE MasterKeepFirst(
            IF Head(new_rxns)._id \in RxnIds(master_rxns) THEN master_rxns
            ELSE Append(master_rxns, Head(new_rxns)),
            Tail(new_rxns))

RECURSIVE MasterFull(_, _, _)
MasterFull(order, master, gen) ==
    IF order = <<>> THEN master
    ELSE LET res == _transform_ind_compound_with_full(Head(order), gen)
         IN MasterFull(Tail(order),
                       [cpds |-> DictUpdate(master.cpds, res.cpds),
                        rxns |-> MasterKeepFirst(master.rxns, res.rxns)], gen)

\* order: the structures in the order their results reach the master loop
_transform_all_compounds_with_full(order, gen) == MasterFull(order, EmptyLocal, gen)

-----------------------------------------------------------------------------
(* Pickaxe._transform_helper.update_cpds_rxns *)

AppendNew_always(s, x) == Append(s, x)

\* if rxn_id not in the list: append
AppendNew(s, x) == IF x \in Range(s) THEN s ELSE Append(s, x)

\* one reaction of the second loop of update_cpds_rxns
MergeOneRxn(reg, rxn_dict) ==
    LET rxn_id == rxn_dict._id
        rxns1 == IF rxn_id \notin DOMAIN reg.reactions
                 THEN [r \in DOMAIN reg.reactions \cup {rxn_id} |->
                         IF r = rxn_id THEN rxn_dict ELSE reg.reactions[r]]
                 ELSE [reg.reactions EXCEPT ![rxn_id] =
                         [@ EXCEPT !.Operators = @ \cup rxn_dict.Operators,
                                   !.Partial = IF reg.reactions[rxn_id].HasPartial
                                               THEN @ \cup rxn_dict.Partial ELSE @]]
        prods == {c \in Ids(rxn_dict.Products) : startswith(c, "C")}
        reacs == {c \in Ids(rxn_dict.Reactants) : startswith(c, "C")}
    IN [compounds |-> [c \in DOMAIN reg.compounds |->
                         [reg.compounds[c] EXCEPT
                            !.Product_of = IF c \in prods THEN AppendNew(@, rxn_id) ELSE @,
                            !.Reactant_in = IF c \in reacs THEN AppendNew(@, rxn_id) ELSE @]],
        reactions |-> rxns1]

RECURSIVE MergeRxns(_, _)
MergeRxns(reg, new_rxns) ==
    IF new_rxns = <<>> THEN reg
    ELSE MergeRxns(MergeOneRxn(reg, Head(new_rxns)), Tail(new_rxns))

\* the first loop of update_cpds_rxns
MergeCpds_overwrite(cpds, new_cpds) == DictUpdate(cpds, new_cpds)

MergeCpds(cpds, new_cpds) ==
    [c \in DOMAIN cpds \cup DOMAIN new_cpds |-> IF c \in DOMAIN cpds THEN cpds[c] ELSE new_cpds[c]]

\* a back-reference update of update_cpds_rxns would raise KeyError
MergeKeyError(cpds, new) ==
    \E k \in DOMAIN new.rxns :
        \E c \in Ids(new.rxns[k].Products) \cup Ids(new.rxns[k].Reactants) :
            startswith(c, "C") /\ c \notin DOMAIN cpds \cup DOMAIN new.cpds

\* the keys of new_cpds in dict order: generated products in the order the
\* accepted reactions first list them
RECURSIVE ProductKeys(_)
ProductKeys(rxns) ==
    IF rxns = <<>> THEN <<>>
    ELSE [i \in DOMAIN Head(rxns).Products |-> Head(rxns).Products[i][2]] \o ProductKeys(Tail(rxns))

NewKeys(keys, cpds, new) ==
    keys \o Ranked(Dedup(ProductKeys(new.rxns)), DOMAIN new.cpds \ DOMAIN cpds)

\* the union at 'Partial Operators' would raise KeyError: the stored record has
\* the key and the incoming one has not
MergePartialKeyError(rxns, new) ==
    \E k \in DOMAIN new.rxns :
        /\ new.rxns[k]._id \in DOMAIN rxns
        /\ rxns[new.rxns[k]._id].HasPartial
        /\ ~new.rxns[k].HasPartial

update_cpds_rxns(cpds, rxns, new) ==
    MergeRxns([compounds |-> MergeCpds(cpds, new.cpds), reactions |-> rxns], new.rxns)

-----------------------------------------------------------------------------
(* Partial operators *)

\* the number of 'Any' roles among the first i roles
AnyUpTo(roles, i) == Cardinality({j \in 1..i : roles[j] = "Any"})

\* load_partial_operators: the reactants of a mapped reaction, by position
mapped_reactants(line) ==
    LET roles == RuleFile(line.base).Reactants
    IN [i \in DOMAIN roles |->
          IF roles[i] = "Any" THEN line.exact[AnyUpTo(roles, i)] ELSE roles[i]]

bi_rule_first_open(line, i) ==
    [rule |-> line.base, rule_reaction |-> line.rule,
     reactants |-> [j \in DOMAIN mapped_reactants(line) |->
                      IF j # 1 THEN mapped_reactants(line)[j] ELSE "SMARTS_match"]]

\* the binding that leaves position i open
bi_rule(line, i) ==
    [rule |-> line.base, rule_reaction |-> line.rule,
     reactants |-> [j \in DOMAIN mapped_reactants(line) |->
                      IF i # j THEN mapped_reactants(line)[j] ELSE "SMARTS_match"]]

\* self.partial_operators[key].append(b), or a new entry
AddBinding(po, key, b) ==
    IF \E k \in DOMAIN po : po[k].key = key
    THEN [k \in DOMAIN po |-> IF po[k].key = key
                              THEN [po[k] EXCEPT !.rules = Append(@, b)] ELSE po[k]]
    ELSE Append(po, [key |-> key, rules |-> <<b>>])

RECURSIVE AddBindings(_, _, _)
AddBindings(po, line, i) ==
    LET roles == RuleFile(line.base).Reactants
    IN IF i > Len(roles) THEN po
       ELSE AddBindings(IF roles[i] = "Any"
                        THEN AddBinding(po, ind_SMARTS(line.base)[i], bi_rule(line, i))
                        ELSE po, line, i + 1)

RECURSIVE LoadPartialLines(_, _)
LoadPartialLines(po, lines) ==
    IF lines = <<>> THEN po
    ELSE LET line == Head(lines)
         IN LoadPartialLines(
               IF line.base \in Range(operators)
                  /\ Count(RuleFile(line.base).Reactants, "Any") >= 2
               THEN AddBindings(po, line, 1) ELSE po,
               Tail(lines))

load_partial_operators(po, lines) ==
    IF operators = <<>> THEN po ELSE LoadPartialLines(po, lines)

partial_reactants_exist_always(partial_rule, cpds) == TRUE

\* _filter_partial_operators.partial_reactants_exist
partial_reactants_exist(partial_rule, cpds) ==
    LET roles == RuleFile(partial_rule.rule).Reactants
    IN \A i \in 1..ZipLen(roles, partial_rule.reactants) :
          IF roles[i] # "Any" THEN coreactants[partial_rule.reactants[i]].id \in DOMAIN cpds
          ELSE IF partial_rule.reactants[i] = "SMARTS_match" THEN TRUE
          ELSE compound_hash(partial_rule.reactants[i], "Predicted") \in DOMAIN cpds

\* SelectSeq with a predicate that reads the registry
RECURSIVE ExistingRules(_, _)
ExistingRules(rules, cpds) ==
    IF rules = <<>> THEN <<>>
    ELSE IF partial_reactants_exist(Head(rules), cpds)
         THEN <<Head(rules)>> \o ExistingRules(Tail(rules), cpds)
         ELSE ExistingRules(Tail(rules), cpds)

RECURSIVE FilterEntries(_, _)
FilterEntries(po, cpds) ==
    IF po = <<>> THEN <<>>
    ELSE LET kept == ExistingRules(Head(po).rules, cpds)
         IN IF kept = <<>> THEN FilterEntries(Tail(po), cpds)
            ELSE <<[key |-> Head(po).key, rules |-> kept]>> \o FilterEntries(Tail(po), cpds)

_filter_partial_operators(po, cpds) == FilterEntries(po, cpds)

\* generate_partial_mols: None when a bound structure is the input itself
partial_mols_none(partial_rule, smi) ==
    LET roles == RuleFile(partial_rule.rule).Reactants
    IN \E i \in 1..ZipLen(roles, partial_rule.reactants) :
          /\ roles[i] = "Any"
          /\ partial_rule.reactants[i] # "SMARTS_match"
          /\ compound_hash(partial_rule.reactants[i], "Predicted") = compound_hash(smi, "Predicted")

generate_partial_mols(partial_rule, smi) ==
    LET roles == RuleFile(partial_rule.rule).Reactants
    IN [i \in 1..ZipLen(roles, partial_rule.reactants) |->
          IF roles[i] # "Any" THEN coreactants[partial_rule.reactants[i]].smi
          ELSE IF partial_rule.reactants[i] = "SMARTS_match" THEN smi
          ELSE partial_rule.reactants[i]]

\* after each applied binding, every reaction of the local dict gets the
\* binding's rule_reaction
TagPartial(rxns, rule_reaction) ==
    [k \in DOMAIN rxns |->
        [rxns[k] EXCEPT !.HasPartial = TRUE, !.Partial = @ \cup {rule_reaction}]]

ApplyBinding(partial_rule, smi, local, gen) ==
    IF partial_mols_none(partial_rule, smi) \/ generate_partial_mols(partial_rule, smi) = <<>>
    THEN local
    ELSE LET res == _run_reaction(partial_rule.rule, generate_partial_mols(partial_rule, smi),
                                  local, gen)
         IN [cpds |-> res.cpds, rxns |-> TagPartial(res.rxns, partial_rule.rule_reaction)]

RECURSIVE ApplyBindings(_, _, _, _)
ApplyBindings(rules, smi, local, gen) ==
    IF rules = <<>> THEN local
    ELSE ApplyBindings(Tail(rules), smi, ApplyBinding(Head(rules), smi, local, gen), gen)

RECURSIVE PartialLoop(_, _, _, _)
PartialLoop(partial_rules, smi, local, gen) ==
    IF partial_rules = <<>> THEN local
    ELSE PartialLoop(Tail(partial_rules), smi,
                     IF QuickSmartsMatch(smi, Head(partial_rules).key)
                     THEN ApplyBindings(Head(partial_rules).rules, smi, local, gen)
                     ELSE local, gen)

_transform_ind_compound_with_partial(partial_rules, smi, gen) ==
    PartialLoop(partial_rules, smi, EmptyLocal, gen)

\* the serial master loop over one delta's reactions: Partial Operators are
\* unioned, Operators are not
RECURSIVE MasterUnionPartial(_, _)
MasterUnionPartial(master_rxns, new_rxns) ==
    IF new_rxns = <<>> THEN master_rxns
    ELSE MasterUnionPartial(
            IF Head(new_rxns)._id \in RxnIds(master_rxns)
            THEN [k \in DOMAIN master_rxns |->
                    IF master_rxns[k]._id = Head(new_rxns)._id
                    THEN [master_rxns[k] EXCEPT !.Partial = @ \cup Head(new_rxns).Partial]
                    ELSE master_rxns[k]]
            ELSE Append(master_rxns, Head(new_rxns)),
            Tail(new_rxns))

RECURSIVE MasterPartial(_, _, _, _, _)
MasterPartial(order, partial_rules, master, gen, workers) ==
    IF order = <<>> THEN master
    ELSE LET res == _transform_ind_compound_with_partial(partial_rules, Head(order), gen)
         IN MasterPartial(Tail(order), partial_rules,
                          [cpds |-> DictUpdate(master.cpds, res.cpds),
                           rxns |-> IF workers > 1
                                    THEN MasterKeepFirst(master.rxns, res.rxns)
                                    ELSE MasterUnionPartial(master.rxns, res.rxns)],
                          gen, workers)

_transform_all_compounds_with_partial(order, partial_rules, gen, workers) ==
    MasterPartial(order, partial_rules, EmptyLocal, gen, workers)

-----------------------------------------------------------------------------
(* Filtering *)

\* crit_tani[self.generation] for a list, crit_tani otherwise
CritVal(crit, gen) == IF crit.isList THEN crit.list[gen + 1] ELSE crit.scalar

\* utils.get_fp(smiles) gives a fingerprint; it raises for a structure
\* without a parse
get_fp(smi) == MolFromSmiles(smi)

_compare_target_fps_no_threshold(targets, crit, smi) ==
    IF targets # <<>> /\ get_fp(smi) THEN FingerprintSimilarity(smi, targets[1]) ELSE -1

\* _compare_target_fps: the similarity to the first target that reaches the
\* threshold, -1 when no target does or when the try block raises
_compare_target_fps(targets, crit, smi) ==
    LET hits == {i \in DOMAIN targets : FingerprintSimilarity(smi, targets[i]) >= crit}
    IN IF ~get_fp(smi) \/ hits = {} THEN -1
       ELSE FingerprintSimilarity(smi, targets[CHOOSE i \in hits : \A j \in hits : i <= j])

\* _compare_target_mcs (retro is false): the overlap with the first target
\* that reaches the threshold, -1 when no target does or when the try block
\* raises
_compare_target_mcs(targets, crit, smi) ==
    LET hits == {i \in DOMAIN targets : get_mcs_overlap(smi, targets[i]) >= crit}
    IN IF ~MolFromSmiles(smi) \/ hits = {} THEN -1
       ELSE get_mcs_overlap(smi, targets[CHOOSE i \in hits : \A j \in hits : i <= j])

\* self.target_fps: a fingerprint per target, kept only under tani_filter
target_fps == IF tani_filter THEN target_smiles ELSE <<>>

\* the loop over cpds_to_ignore, for one compound
SetExpand(cpd, current_val, measure) ==
    IF current_val = -1 THEN [cpd EXCEPT !.Expand = FALSE]
    ELSE IF measure = "tani" /\ increasing_tani
         THEN IF current_val >= cpd.last_tani
              THEN [cpd EXCEPT !.last_tani = current_val]
              ELSE [cpd EXCEPT !.Expand = FALSE]
         ELSE cpd

compounds_to_check(cpds, gen) ==
    {c \in DOMAIN cpds : cpds[c].Generation = gen
                         /\ cpds[c].Type \notin {"Coreactant", "Target Compound"}}

\* the compounds after scoring
Scored(cpds, gen, measure) ==
    [c \in DOMAIN cpds |->
        IF c \in compounds_to_check(cpds, gen)
        THEN SetExpand(cpds[c],
                       (IF measure = "tani"
                        THEN _compare_target_fps(target_fps, CritVal(crit_tani, gen),
                                                 cpds[c].SMILES)
                        ELSE _compare_target_mcs(target_smiles, CritVal(crit_mcs, gen),
                                                 cpds[c].SMILES)),
                       measure)
        ELSE cpds[c]]

\* cpds_to_remove as first built
ToRemove(cpds, gen) ==
    {c \in compounds_to_check(cpds, gen) : ~cpds[c].Expand /\ startswith(c, "C")}

rxns_to_check(cpds, gen) ==
    UNION {Range(cpds[c].Product_of) \cup Range(cpds[c].Reactant_in) : c \in ToRemove(cpds, gen)}

should_delete_reaction_any(rxns, rxn_id, cpds_to_remove) ==
    \E c \in Ids(rxns[rxn_id].Products) : startswith(c, "C") /\ c \in cpds_to_remove

should_delete_reaction(rxns, rxn_id, cpds_to_remove) ==
    \A c \in Ids(rxns[rxn_id].Products) : startswith(c, "C") => c \in cpds_to_remove

\* a lookup of the cascade would raise KeyError
CascadeKeyError(st, rxn_id) ==
    \/ rxn_id \notin DOMAIN st.reactions
    \/ /\ should_delete_reaction(st.reactions, rxn_id, st.cpds_to_remove)
       /\ \E c \in Ids(st.reactions[rxn_id].Products) \cup Ids(st.reactions[rxn_id].Reactants) :
             startswith(c, "C") /\ c \notin DOMAIN st.compounds

\* one reaction of the loop over rxns_to_check
CascadeOne(st, rxn_id) ==
    IF st.err \/ CascadeKeyError(st, rxn_id) THEN [st EXCEPT !.err = TRUE]
    ELSE LET rxn == st.reactions[rxn_id]
         IN IF should_delete_reaction(st.reactions, rxn_id, st.cpds_to_remove)
            THEN [st EXCEPT
                    !.compounds = [c \in DOMAIN st.compounds |->
                        [st.compounds[c] EXCEPT
                           !.Product_of = IF c \in Ids(rxn.Products) /\ startswith(c, "C")
                                          THEN Remove(@, rxn_id) ELSE @,
                           !.Reactant_in = IF c \in Ids(rxn.Reactants) /\ startswith(c, "C")
                                           THEN Remove(@, rxn_id) ELSE @]],
                    !.reactions = [r \in DOMAIN st.reactions \ {rxn_id} |-> st.reactions[r]]]
            ELSE [st EXCEPT !.cpds_to_remove = @ \ Ids(rxn.Products)]

RECURSIVE Cascade(_, _)
Cascade(st, order) ==
    IF order = <<>> THEN st ELSE Cascade(CascadeOne(st, Head(order)), Tail(order))

_filter_by_keeps_compounds(cpds, rxns, gen, measure, order) ==
    LET scored == Scored(cpds, gen, measure)
        st == Cascade([compounds |-> scored, reactions |-> rxns,
                       cpds_to_remove |-> ToRemove(scored, gen), err |-> FALSE], order)
    IN [compounds |-> st.compounds,
        reactions |-> st.reactions,
        removed |-> st.cpds_to_remove,
        err |-> st.err]

\* _filter_by: order is the order in which the set rxns_to_check is visited
_filter_by(cpds, rxns, gen, measure, order) ==
    LET scored == Scored(cpds, gen, measure)
        st == Cascade([compounds |-> scored, reactions |-> rxns,
                       cpds_to_remove |-> ToRemove(scored, gen), err |-> FALSE], order)
    IN [compounds |-> [c \in DOMAIN st.compounds \ st.cpds_to_remove |-> st.compounds[c]],
        reactions |-> st.reactions,
        removed |-> st.cpds_to_remove,
        err |-> st.err]

-----------------------------------------------------------------------------
(* remove_cofactor_redundancy *)

cofactors_as_cpds(cpds) ==
    {c \in DOMAIN cpds : startswith(c, "C")
                         /\ <<"X", c[2]>> \in {coreactants[n].id : n \in DOMAIN coreactants}}

\* a half reaction with every compound of cof replaced by its coreactant
Substituted(half, cof) ==
    [k \in DOMAIN half |-> IF half[k][2] \in cof THEN <<half[k][1], <<"X", half[k][2][2]>>>>
                           ELSE half[k]]

\* a lookup of the loop body would raise KeyError
CollapseKeyError(st, rxn_id, cof) ==
    \/ rxn_id \notin DOMAIN st.reactions
    \/ \E c \in Ids(Substituted(st.reactions[rxn_id].Reactants, cof))
               \cup Ids(Substituted(st.reactions[rxn_id].Products, cof))
               \cup {d \in Ids(st.reactions[rxn_id].Reactants)
                           \cup Ids(st.reactions[rxn_id].Products) : startswith(d, "C")} :
          c \notin DOMAIN st.compounds

\* the loop body for one reaction of one cofactor-like compound
CollapseOne(st, rxn_id, cof) ==
    IF st.err \/ CollapseKeyError(st, rxn_id, cof) THEN [st EXCEPT !.err = TRUE]
    ELSE LET rxn == st.reactions[rxn_id]
             reactants == Substituted(rxn.Reactants, cof)
             products == Substituted(rxn.Products, cof)
             cofactor_rxn_id == rxn2hash(reactants, products)
             reacs == {c \in Ids(rxn.Reactants) : startswith(c, "C")}
             prods == {c \in Ids(rxn.Products) : startswith(c, "C")}
         IN IF cofactor_rxn_id \in DOMAIN st.reactions
            THEN [st EXCEPT
                    !.reactions = [@ EXCEPT ![cofactor_rxn_id] =
                                      [@ EXCEPT !.Operators = @ \cup rxn.Operators]],
                    !.compounds = [c \in DOMAIN st.compounds |->
                        [st.compounds[c] EXCEPT
                           !.Reactant_in = IF c \in reacs THEN Remove(@, rxn_id) ELSE @,
                           !.Product_of = IF c \in prods THEN Remove(@, rxn_id) ELSE @]]]
            ELSE [st EXCEPT
                    !.reactions = [r \in DOMAIN st.reactions \cup {cofactor_rxn_id} |->
                        IF r = cofactor_rxn_id
                        THEN [_id |-> cofactor_rxn_id, Reactants |-> reactants,
                              Products |-> products, Operators |-> rxn.Operators,
                              HasPartial |-> rxn.HasPartial /\ rxn.Partial # {},
                              Partial |-> rxn.Partial]
                        ELSE st.reactions[r]],
                    !.compounds = [c \in DOMAIN st.compounds |->
                        [st.compounds[c] EXCEPT
                           !.Reactant_in = IF c \in reacs
                                           THEN Remove(Append(@, cofactor_rxn_id), rxn_id) ELSE @,
                           !.Product_of = IF c \in prods
                                          THEN Remove(Append(@, cofactor_rxn_id), rxn_id) ELSE @]]]

RECURSIVE CollapseRxns(_, _, _)
CollapseRxns(st, rxn_order, cof) ==
    IF rxn_order = <<>> THEN st
    ELSE CollapseRxns(CollapseOne(st, Head(rxn_order), cof), Tail(rxn_order), cof)

\* the loop over cofactors_as_cpds; rxns_to_del is rebuilt from an empty set
\* for every compound
RECURSIVE CollapseCpds(_, _, _, _)
CollapseCpds(st, cpd_order, rank, cof) ==
    IF cpd_order = <<>> \/ st.err THEN st
    ELSE LET cpd == st.compounds[Head(cpd_order)]
             rxn_ids == Range(cpd.Product_of) \cup Range(cpd.Reactant_in)
         IN CollapseCpds(CollapseRxns([st EXCEPT !.rxns_to_del = rxn_ids, !.any = TRUE],
                                      Ranked(rank, rxn_ids), cof),
                         Tail(cpd_order), rank, cof)

\* every id the inner loop can meet: the reactions the cofactor-like compounds
\* list, and the corrected id of a reaction that lists two of them (the first
\* visit appends it to the lists of the second)
CollapseUniverse(cpds, rxns) ==
    LET cof == cofactors_as_cpds(cpds)
        touched == UNION {Range(cpds[c].Product_of) \cup Range(cpds[c].Reactant_in) : c \in cof}
    IN touched \cup {rxn2hash(Substituted(rxns[r].Reactants, cof),
                              Substituted(rxns[r].Products, cof)) :
                     r \in {t \in touched \cap DOMAIN rxns :
                               Cardinality((Ids(rxns[t].Reactants) \cup Ids(rxns[t].Products))
                                           \cap cof) > 1}}

\* rank: the order in which the sets rxn_ids are visited
remove_cofactor_redundancy(cpds, keys, rxns, rank) ==
    LET cof == cofactors_as_cpds(cpds)
        cpd_order == Ranked(keys, cof)
        st == CollapseCpds([compounds |-> cpds, reactions |-> rxns, rxns_to_del |-> {},
                            any |-> FALSE, err |-> FALSE], cpd_order, rank, cof)
    IN IF st.err \/ (st.rxns_to_del # {} /\ ~(st.rxns_to_del \subseteq DOMAIN st.reactions))
       THEN [compounds |-> st.compounds, reactions |-> st.reactions, err |-> TRUE]
       ELSE IF st.rxns_to_del # {}
       THEN [compounds |-> [c \in DOMAIN st.compounds \ cof |-> st.compounds[c]],
             reactions |-> [r \in DOMAIN st.reactions \ st.rxns_to_del |-> st.reactions[r]],
             err |-> FALSE]
       ELSE [compounds |-> st.compounds, reactions |-> st.reactions, err |-> FALSE]

-----------------------------------------------------------------------------
(* Pruning *)

\* the loop over a reaction's reactants in find_minimal_set
RECURSIVE VisitReactants(_, _)
VisitReactants(st, reactants) ==
    IF reactants = <<>> THEN st
    ELSE LET r == Head(reactants)[2]
             st1 == [st EXCEPT !.comp_set = @ \cup {r}]
         IN VisitReactants(
               IF startswith(r, "C") /\ r \notin st.white_set
               THEN [st1 EXCEPT !.white_list = Append(@, r), !.white_set = @ \cup {r}]
               ELSE st1,
               Tail(reactants))

RECURSIVE VisitProductOf(_, _, _)
VisitProductOf(st, rxn_ids, rxns) ==
    IF rxn_ids = <<>> \/ st.err THEN st
    ELSE IF Head(rxn_ids) \notin DOMAIN rxns THEN [st EXCEPT !.err = TRUE]
    ELSE LET rxn == rxns[Head(rxn_ids)]
         IN VisitProductOf(
               VisitReactants([st EXCEPT !.rxn_set = @ \cup {Head(rxn_ids)},
                                         !.comp_set = @ \cup Ids(rxn.Products)],
                              rxn.Reactants),
               Tail(rxn_ids), rxns)

RECURSIVE MinimalLoop(_, _, _, _)
MinimalLoop(st, i, cpds, rxns) ==
    IF i > Len(st.white_list) \/ st.err THEN st
    ELSE IF st.white_list[i] \notin DOMAIN cpds THEN MinimalLoop(st, i + 1, cpds, rxns)
    ELSE MinimalLoop(VisitProductOf(st, cpds[st.white_list[i]].Product_of, rxns),
                     i + 1, cpds, rxns)

find_minimal_set_no_recursion(white, cpds, rxns) ==
    LET direct == UNION {Range(cpds[c].Product_of) \cap DOMAIN rxns :
                            c \in Range(white) \cap DOMAIN cpds}
    IN [comp_set |-> UNION {Ids(rxns[r].Reactants) \cup Ids(rxns[r].Products) : r \in direct}
                     \cup (IF tani_filter THEN {c \in DOMAIN cpds : startswith(c, "T")} ELSE {}),
        rxn_set |-> direct, closure |-> Range(white), err |-> FALSE]

\* white: the whitelist as the list list(white_set)
find_minimal_set(white, cpds, rxns) ==
    LET st == MinimalLoop([white_list |-> white, white_set |-> Range(white),
                           comp_set |-> {}, rxn_set |-> {}, err |-> FALSE], 1, cpds, rxns)
    IN [comp_set |-> st.comp_set
                     \cup (IF tani_filter THEN {c \in DOMAIN cpds : startswith(c, "T")} ELSE {}),
        rxn_set |-> st.rxn_set, closure |-> st.white_set, err |-> st.err]

prune_network_keep_reactions(white, cpds, rxns) ==
    [compounds |-> [c \in DOMAIN cpds \cap find_minimal_set(white, cpds, rxns).comp_set |->
                       cpds[c]],
     reactions |-> rxns,
     err |-> find_minimal_set(white, cpds, rxns).err]

prune_network(white, cpds, rxns) ==
    LET m == find_minimal_set(white, cpds, rxns)
    IN [compounds |-> [c \in DOMAIN cpds \cap m.comp_set |-> cpds[c]],
        reactions |-> [r \in DOMAIN rxns \cap m.rxn_set |-> rxns[r]],
        err |-> m.err]

\* the second pass of prune_network_to_targets
childless(cpds, white, gen) ==
    {c \in DOMAIN cpds : /\ startswith(c, "C")
                         /\ cpds[c].Generation \in 0..gen
                         /\ cpds[c].Reactant_in = <<>>
                         /\ c \notin white}

prune_network_to_targets(white, cpds, rxns, gen) ==
    LET p == prune_network(white, cpds, rxns)
        dead == childless(p.compounds, Range(white), gen)
        dead_rxns == UNION {Range(p.compounds[c].Product_of) : c \in dead}
    IN IF p.err THEN p
       ELSE [compounds |-> [c \in DOMAIN p.compounds \ dead |-> p.compounds[c]],
             reactions |-> [r \in DOMAIN p.reactions \ dead_rxns |-> p.reactions[r]],
             err |-> FALSE]

-----------------------------------------------------------------------------
(* The run: Pickaxe(...), load_compound_set, load_partial_operators,       *)
(* load_target_and_filters, transform_all, remove_cofactor_redundancy,     *)
(* prune_network / prune_network_to_targets                                *)

Note(step, removed, hit) == [step |-> step, removed |-> removed, hit |-> hit]

\* the keys after the insertions of AddAll
LoadedKeys(keys, smis, cpd_type) ==
    keys \o Ranked(Dedup([i \in DOMAIN smis |-> compound_hash(smis[i], cpd_type)]),
                   {compound_hash(smis[i], cpd_type) : i \in DOMAIN smis} \ Range(keys))

\* _load_coreactant, for every line of the coreactant list
LoadedCoreactants(coreactant_list) ==
    [n \in {coreactant_list[i].name : i \in DOMAIN coreactant_list} |->
        [smi |-> coreactant_list[CHOOSE i \in DOMAIN coreactant_list :
                                    coreactant_list[i].name = n].smi,
         id |-> compound_hash(coreactant_list[CHOOSE i \in DOMAIN coreactant_list :
                                                 coreactant_list[i].name = n].smi,
                              "Coreactant")]]

CoreactantSmiles(coreactant_list) ==
    [i \in DOMAIN coreactant_list |-> coreactant_list[i].smi]

_load_operators_unchecked(ops, rows, names) ==
    [operators |-> ops \o rows, err |-> FALSE]

\* _load_operators: the rows are loaded in order; a role that is neither 'Any'
\* nor a loaded coreactant, or a Name that is already loaded, raises
\* ValueError; a template whose pattern counts differ from the role lists is
\* counted in skipped and loaded
RECURSIVE _load_operators(_, _, _)
_load_operators(ops, rows, names) ==
    IF rows = <<>> THEN [operators |-> ops, err |-> FALSE]
    ELSE LET rule == RuleFile(Head(rows))
         IN IF \E x \in Range(rule.Reactants \o rule.Products) : x \notin names \cup {"Any"}
            THEN [operators |-> ops, err |-> TRUE]
            ELSE IF \E i \in DOMAIN ops : RuleFile(ops[i]).Name = rule.Name
            THEN [operators |-> ops, err |-> TRUE]
            ELSE _load_operators(Append(ops, Head(rows)), Tail(rows), names)

\* __init__: self._load_operators(rule_list) after the coreactants are loaded
Constructed(lib) ==
    _load_operators(<<>>, lib.rule_list, DOMAIN LoadedCoreactants(lib.coreactant_list))

\* __init__ with a coreactant list and a rule list
\* the names of the loaded operators
OperatorNames(ops) == {RuleFile(ops[i]).Name : i \in DOMAIN ops}

\* 'Reactions_predicted': 0 of every rule, as _load_operators stores it
NoneCounted(ops) == [n \in OperatorNames(ops) |-> 0]

Init ==
    /\ \E lib \in Libraries :
          /\ operators = Constructed(lib).operators
          /\ pc = (IF Constructed(lib).err THEN "crashed" ELSE "new")
          /\ last = Note((IF Constructed(lib).err THEN "ValueError" ELSE "init"), {},
                         Range(lib.rule_list))
          /\ coreactants = LoadedCoreactants(lib.coreactant_list)
          /\ compounds = AddAll(<<>>, CoreactantSmiles(lib.coreactant_list), "Coreactant", 0)
          /\ cpd_keys = LoadedKeys(<<>>, CoreactantSmiles(lib.coreactant_list), "Coreactant")
    /\ reactions = <<>>
    /\ generation = 0
    /\ partial_operators = <<>>
    /\ tani_filter = FALSE
    /\ increasing_tani = FALSE
    /\ crit_tani = NoCrit
    /\ mcs_filter = FALSE
    /\ crit_mcs = NoCrit
    /\ target_smiles = <<>>
    /\ num_workers = 1
    /\ max_generations = 1
    /\ compound_smiles = <<>>
    /\ white_list = {}
    /\ fragmented_mols = FALSE
    /\ Reactions_predicted = NoneCounted(operators)

\* pk.fragmented_mols = True: the attribute is assigned before anything is loaded
SetFragmentedMols ==
    /\ pc = "new"
    /\ ~fragmented_mols
    /\ fragmented_mols' = TRUE
    /\ last' = Note("fragmented_mols", {}, {})
    /\ UNCHANGED <<Reactions_predicted, mcs_filter, crit_mcs, operators, coreactants, compounds, cpd_keys, reactions, generation,
                   partial_operators, tani_filter, increasing_tani, crit_tani,
                   target_smiles, num_workers, max_generations, compound_smiles,
                   white_list, pc>>

\* _mol_from_dict: the rows of a file that give a mol (a disconnected
\* structure gives none unless fragmented_mols is set)
RECURSIVE Parsed(_, _)
Parsed(file, frag) ==
    IF file = <<>> THEN <<>>
    ELSE IF ~frag /\ Fragmented(Head(file)) THEN Parsed(Tail(file), frag)
    ELSE <<Head(file)>> \o Parsed(Tail(file), frag)

\* the ids an insertion of smis meets already stored
Met(cpds, smis, cpd_type) ==
    {compound_hash(smis[i], cpd_type) : i \in {j \in DOMAIN smis :
        \/ compound_hash(smis[j], cpd_type) \in DOMAIN cpds
        \/ \E k \in 1..(j - 1) : smis[k] = smis[j]}}

LoadCompoundSet ==
    /\ pc = "new"
    /\ \E file \in {Parsed(f, fragmented_mols) : f \in CompoundFiles} :
          /\ compounds' = AddAll(compounds, file, "Starting Compound", generation)
          /\ cpd_keys' = LoadedKeys(cpd_keys, file, "Starting Compound")
          /\ last' = Note("load_compound_set", {}, Met(compounds, file, "Starting Compound"))
    /\ pc' = "loaded"
    /\ UNCHANGED <<Reactions_predicted, mcs_filter, crit_mcs, fragmented_mols, operators, coreactants, reactions, generation, partial_operators,
                   tani_filter, increasing_tani, crit_tani, target_smiles, num_workers,
                   max_generations, compound_smiles, white_list>>

LoadPartialOperators ==
    /\ pc = "loaded"
    /\ partial_operators = <<>>
    /\ load_partial_operators(partial_operators, MappedReactions) # <<>>
    /\ partial_operators' = load_partial_operators(partial_operators, MappedReactions)
    /\ last' = Note("load_partial_operators", {}, {})
    /\ UNCHANGED <<Reactions_predicted, mcs_filter, crit_mcs, fragmented_mols, operators, coreactants, compounds, cpd_keys, reactions, generation,
                   tani_filter, increasing_tani, crit_tani, target_smiles, num_workers,
                   max_generations, compound_smiles, white_list, pc>>

\* the rows of the target file that give a mol
TargetRows(target_compound_file) == Parsed(target_compound_file.rows, fragmented_mols)

\* load_target_and_filters with filter arguments f: the options are stored
\* before the file argument is looked at
load_target_and_filters(f, target_compound_file) ==
    /\ pc = "loaded"
    /\ ~tani_filter /\ ~mcs_filter
    /\ tani_filter' = f.tani_filter
    /\ crit_tani' = f.crit_tani
    /\ increasing_tani' = f.increasing_tani
    /\ mcs_filter' = f.mcs_filter
    /\ crit_mcs' = f.crit_mcs
    /\ IF target_compound_file.given
       THEN /\ compounds' = AddAll(compounds, TargetRows(target_compound_file),
                                   "Target Compound", generation)
            /\ cpd_keys' = LoadedKeys(cpd_keys, TargetRows(target_compound_file),
                                      "Target Compound")
            /\ target_smiles' = target_smiles \o TargetRows(target_compound_file)
            /\ last' = Note("load_target_and_filters", {},
                            Met(compounds, TargetRows(target_compound_file),
                                "Target Compound"))
            /\ pc' = pc
       ELSE /\ pc' = "crashed"
            /\ last' = Note("ValueError: no target file", {}, {})
            /\ UNCHANGED <<compounds, cpd_keys, target_smiles>>
    /\ UNCHANGED <<Reactions_predicted, fragmented_mols, operators, coreactants, reactions,
                   generation, partial_operators, num_workers, max_generations,
                   compound_smiles, white_list>>

LoadTargetAndFilters ==
    \E f \in FilterChoices, target_compound_file \in TargetArgs :
        load_target_and_filters(f, target_compound_file)

\* transform_all(num_workers, max_generations) is entered
TransformAll ==
    /\ pc = "loaded"
    /\ num_workers' \in {1, 2}
    /\ max_generations' \in 1..MaxGen
    /\ pc' = "loop"
    /\ last' = Note("transform_all", {}, {})
    /\ UNCHANGED <<Reactions_predicted, mcs_filter, crit_mcs, fragmented_mols, operators, coreactants, compounds, cpd_keys, reactions, generation,
                   partial_operators, tani_filter, increasing_tani, crit_tani,
                   target_smiles, compound_smiles, white_list>>

while_always(gen, max_gen) == TRUE

\* while self.generation < max_generations
while_generation(gen, max_gen) == gen < max_gen

\* while self.generation < max_generations: false
LoopExit ==
    /\ pc = "loop"
    /\ ~while_generation(generation, max_generations)
    /\ pc' = "expanded"
    /\ last' = Note("return", {}, {})
    /\ UNCHANGED <<Reactions_predicted, mcs_filter, crit_mcs, fragmented_mols, operators, coreactants, compounds, cpd_keys, reactions, generation,
                   partial_operators, tani_filter, increasing_tani, crit_tani,
                   target_smiles, num_workers, max_generations, compound_smiles, white_list>>

no_targets_never(targets) == FALSE

\* if not self.target_fps / if not self.target_smiles
no_targets(targets) == targets = <<>>

\* the Tanimoto block of one iteration
FilterTani ==
    /\ pc = "loop"
    /\ while_generation(generation, max_generations)
    /\ tani_filter
    /\ IF no_targets(target_fps)
       THEN /\ pc' = "expanded"
            /\ last' = Note("no targets", {}, {})
            /\ UNCHANGED <<compounds, cpd_keys, reactions>>
       ELSE \E order \in Perms(rxns_to_check(Scored(compounds, generation, "tani"), generation)) :
               LET res == _filter_by(compounds, reactions, generation, "tani", order)
               IN IF res.err
                  THEN /\ pc' = "crashed"
                       /\ last' = Note("KeyError", {}, {})
                       /\ UNCHANGED <<compounds, cpd_keys, reactions>>
                  ELSE /\ compounds' = res.compounds
                       /\ cpd_keys' = Ranked(cpd_keys, DOMAIN res.compounds)
                       /\ reactions' = res.reactions
                       /\ pc' = (IF mcs_filter THEN "mcs" ELSE "select")
                       /\ last' = Note("_filter_by", res.removed, {})
    /\ UNCHANGED <<Reactions_predicted, mcs_filter, crit_mcs, fragmented_mols, operators, coreactants, generation, partial_operators, tani_filter,
                   increasing_tani, crit_tani, target_smiles, num_workers,
                   max_generations, compound_smiles, white_list>>

\* the MCS block of one iteration: with targets, the threshold is read as
\* self.crit_mcs[self.generation] whatever its type
FilterMcs ==
    /\ \/ pc = "mcs"
       \/ pc = "loop" /\ while_generation(generation, max_generations) /\ ~tani_filter
    /\ mcs_filter
    /\ IF no_targets(target_smiles)
       THEN /\ pc' = "expanded"
            /\ last' = Note("no targets", {}, {})
            /\ UNCHANGED <<compounds, cpd_keys, reactions>>
       ELSE IF ~crit_mcs.isList
       THEN /\ pc' = "crashed"
            /\ last' = Note("TypeError", {}, {})
            /\ UNCHANGED <<compounds, cpd_keys, reactions>>
       ELSE \E order \in Perms(rxns_to_check(Scored(compounds, generation, "mcs"), generation)) :
               LET res == _filter_by(compounds, reactions, generation, "mcs", order)
               IN IF res.err
                  THEN /\ pc' = "crashed"
                       /\ last' = Note("KeyError", {}, {})
                       /\ UNCHANGED <<compounds, cpd_keys, reactions>>
                  ELSE /\ compounds' = res.compounds
                       /\ cpd_keys' = Ranked(cpd_keys, DOMAIN res.compounds)
                       /\ reactions' = res.reactions
                       /\ pc' = "select"
                       /\ last' = Note("_filter_by", res.removed, {})
    /\ UNCHANGED <<Reactions_predicted, mcs_filter, crit_mcs, fragmented_mols, operators, coreactants, generation, partial_operators, tani_filter,
                   increasing_tani, crit_tani, target_smiles, num_workers,
                   max_generations, compound_smiles, white_list>>

NoFilter ==
    /\ pc = "loop"
    /\ while_generation(generation, max_generations)
    /\ ~tani_filter /\ ~mcs_filter
    /\ pc' = "select"
    /\ last' = Note("no filter", {}, {})
    /\ UNCHANGED <<Reactions_predicted, mcs_filter, crit_mcs, fragmented_mols, operators, coreactants, compounds, cpd_keys, reactions, generation,
                   partial_operators, tani_filter, increasing_tani, crit_tani,
                   target_smiles, num_workers, max_generations, compound_smiles, white_list>>

Selected_any_generation(cpds, keys, gen) ==
    LET ids == Ranked(keys, {d \in DOMAIN cpds :
                   /\ cpds[d].Type \notin {"Coreactant", "Target Compound"}
                   /\ cpds[d].Expand})
    IN [i \in DOMAIN ids |-> cpds[ids[i]].SMILES]

\* the structures transform_all selects for generation gen
Selected(cpds, keys, gen) ==
    LET ids == Ranked(keys, {d \in DOMAIN cpds :
                   /\ cpds[d].Generation = gen - 1
                   /\ cpds[d].Type \notin {"Coreactant", "Target Compound"}
                   /\ cpds[d].Expand})
    IN [i \in DOMAIN ids |-> cpds[ids[i]].SMILES]

\* the orders in which the results of the inputs can reach the master loop:
\* list order in the serial branch, completion order in the pool
Arrivals(smis, workers) == IF workers > 1 THEN Perms(Range(smis)) ELSE {smis}

\* update_cpds_rxns(new_cpds, new_rxns) on the registry, and the position
\* the run goes to
Merged(new, step, next_pc) ==
    IF MergeKeyError(compounds, new) \/ MergePartialKeyError(reactions, new)
    THEN /\ pc' = "crashed"
         /\ last' = Note("KeyError", {}, {})
         /\ UNCHANGED <<compounds, cpd_keys, reactions>>
    ELSE /\ compounds' = update_cpds_rxns(compounds, reactions, new).compounds
         /\ cpd_keys' = NewKeys(cpd_keys, compounds, new)
         /\ reactions' = update_cpds_rxns(compounds, reactions, new).reactions
         /\ pc' = next_pc
         /\ last' = Note(step, {}, DOMAIN new.cpds \cap DOMAIN compounds)

\* _transform_ind_compound_with_full returns None for an input without a
\* parse; the master loop unpacks every result as a pair, in either branch
unpack_raises(smis) == \E i \in DOMAIN smis : ~MolFromSmiles(smis[i])

\* generation += 1, the selection, and the full-operator half of
\* _transform_helper
ExpandFull ==
    /\ pc = "select"
    /\ generation' = generation + 1
    /\ IF Selected(compounds, cpd_keys, generation + 1) = <<>>
       THEN /\ pc' = "expanded"
            /\ last' = Note("nothing to expand", {}, {})
            /\ compound_smiles' = <<>>
            /\ UNCHANGED <<compounds, cpd_keys, reactions>>
       ELSE IF unpack_raises(Selected(compounds, cpd_keys, generation + 1))
       THEN /\ compound_smiles' = Selected(compounds, cpd_keys, generation + 1)
            /\ pc' = "crashed"
            /\ last' = Note("TypeError", {}, {})
            /\ UNCHANGED <<compounds, cpd_keys, reactions>>
       ELSE /\ compound_smiles' = Selected(compounds, cpd_keys, generation + 1)
            /\ \E order \in Arrivals(Selected(compounds, cpd_keys, generation + 1), num_workers) :
                  Merged(_transform_all_compounds_with_full(order, generation + 1), "full",
                         IF partial_operators # <<>> THEN "partial" ELSE "loop")
    /\ UNCHANGED <<Reactions_predicted, mcs_filter, crit_mcs, fragmented_mols, operators, coreactants, partial_operators, tani_filter, increasing_tani,
                   crit_tani, target_smiles, num_workers, max_generations, white_list>>

\* the partial-operator half of _transform_helper
ExpandPartial ==
    /\ pc = "partial"
    /\ IF _filter_partial_operators(partial_operators, compounds) = <<>>
       THEN /\ last' = Note("no partial operators", {}, {})
            /\ pc' = "loop"
            /\ UNCHANGED <<compounds, cpd_keys, reactions>>
       ELSE \E order \in Arrivals(compound_smiles, num_workers) :
               Merged(_transform_all_compounds_with_partial(
                          order, _filter_partial_operators(partial_operators, compounds),
                          generation, num_workers),
                      "partial", "loop")
    /\ UNCHANGED <<Reactions_predicted, mcs_filter, crit_mcs, fragmented_mols, operators, coreactants, generation, partial_operators, tani_filter,
                   increasing_tani, crit_tani, target_smiles, num_workers,
                   max_generations, compound_smiles, white_list>>

RemoveCofactorRedundancy ==
    /\ pc = "expanded"
    /\ \E rank \in Perms(CollapseUniverse(compounds, reactions)) :
          LET res == remove_cofactor_redundancy(compounds, cpd_keys, reactions, rank)
          IN IF res.err
             THEN /\ pc' = "crashed"
                  /\ last' = Note("KeyError", {}, {})
                  /\ UNCHANGED <<compounds, cpd_keys, reactions>>
             ELSE /\ compounds' = res.compounds
                  /\ cpd_keys' = Ranked(cpd_keys, DOMAIN res.compounds)
                  /\ reactions' = res.reactions
                  /\ pc' = "collapsed"
                  /\ last' = Note("remove_cofactor_redundancy",
                                  DOMAIN compounds \ DOMAIN res.compounds, {})
    /\ UNCHANGED <<Reactions_predicted, mcs_filter, crit_mcs, fragmented_mols, operators, coreactants, generation, partial_operators, tani_filter,
                   increasing_tani, crit_tani, target_smiles, num_workers,
                   max_generations, compound_smiles, white_list>>

\* the whitelists handed to prune_network
WhiteCandidates == {compound_hash(smi, "Predicted") : smi \in {"A", "B", "G", "F"}}

WhiteLists == {W \in SUBSET WhiteCandidates : Cardinality(W) <= MaxWhite}

PruneNetwork ==
    /\ pc \in {"expanded", "collapsed"}
    /\ \E W \in WhiteLists :
       \E white \in Perms(W) :
          LET res == prune_network(white, compounds, reactions)
          IN /\ white_list' = W
             /\ IF res.err
                THEN /\ pc' = "crashed"
                     /\ last' = Note("KeyError", {}, {})
                     /\ UNCHANGED <<compounds, cpd_keys, reactions>>
                ELSE /\ compounds' = res.compounds
                     /\ cpd_keys' = Ranked(cpd_keys, DOMAIN res.compounds)
                     /\ reactions' = res.reactions
                     /\ pc' = "pruned"
                     /\ last' = Note("prune_network", DOMAIN compounds \ DOMAIN res.compounds,
                                     find_minimal_set(white, compounds, reactions).closure)
    /\ UNCHANGED <<Reactions_predicted, mcs_filter, crit_mcs, fragmented_mols, operators, coreactants, generation, partial_operators, tani_filter,
                   increasing_tani, crit_tani, target_smiles, num_workers,
                   max_generations, compound_smiles>>

\* the whitelist prune_network_to_targets builds
TargetWhiteList == {compound_hash(target_smiles[i], "Predicted") : i \in DOMAIN target_smiles}

PruneNetworkToTargets ==
    /\ pc \in {"expanded", "collapsed"}
    /\ (tani_filter \/ mcs_filter)
    /\ \E white \in Perms(TargetWhiteList) :
          LET res == prune_network_to_targets(white, compounds, reactions, generation)
          IN /\ white_list' = TargetWhiteList
             /\ IF res.err
                THEN /\ pc' = "crashed"
                     /\ last' = Note("KeyError", {}, {})
                     /\ UNCHANGED <<compounds, cpd_keys, reactions>>
                ELSE /\ compounds' = res.compounds
                     /\ cpd_keys' = Ranked(cpd_keys, DOMAIN res.compounds)
                     /\ reactions' = res.reactions
                     /\ pc' = "pruned"
                     /\ last' = Note("prune_network_to_targets",
                                     DOMAIN compounds \ DOMAIN res.compounds,
                                     find_minimal_set(white, compounds, reactions).closure)
    /\ UNCHANGED <<Reactions_predicted, mcs_filter, crit_mcs, fragmented_mols, operators, coreactants, generation, partial_operators, tani_filter,
                   increasing_tani, crit_tani, target_smiles, num_workers,
                   max_generations, compound_smiles>>

\* op.split("_")[0]: the text before the first underscore
split_underscore(op) ==
    CASE op = "R1_x" -> "R1"
      [] op = "R5_1" -> "R5"
      [] op = "R5_2" -> "R5"
      [] op = "R6_1" -> "R6"
      [] OTHER -> op

\* save_to_mine, "update operator rxn count": one increment for every
\* operator of every reaction, under the split name
CountedOperators(rxns, names) ==
    [n \in names |->
        Cardinality(UNION {{<<r, op>> : op \in {o \in rxns[r].Operators :
                                                   split_underscore(o) = n}} :
                           r \in DOMAIN rxns})]

\* pk.save_to_mine(): reactions and compounds are handed to the database,
\* which leaves the registry as it is; then the operators are counted
SaveToMine ==
    /\ pc \in {"expanded", "collapsed", "pruned"}
    /\ IF \E r \in DOMAIN reactions : \E op \in reactions[r].Operators :
             split_underscore(op) \notin DOMAIN Reactions_predicted
       THEN /\ pc' = "crashed"
            /\ last' = Note("KeyError: operator", {}, {})
            /\ \E done \in SUBSET {r \in DOMAIN reactions :
                                     \A op \in reactions[r].Operators :
                                        split_underscore(op) \in DOMAIN Reactions_predicted} :
                  Reactions_predicted' =
                     [n \in DOMAIN Reactions_predicted |->
                         Reactions_predicted[n]
                         + CountedOperators([r \in done |-> reactions[r]],
                                            DOMAIN Reactions_predicted)[n]]
       ELSE /\ pc' = "saved"
            /\ last' = Note("save_to_mine", {}, {})
            /\ Reactions_predicted' =
                  [n \in DOMAIN Reactions_predicted |->
                      Reactions_predicted[n]
                      + CountedOperators(reactions, DOMAIN Reactions_predicted)[n]]
    /\ UNCHANGED <<mcs_filter, crit_mcs, fragmented_mols, operators, coreactants, compounds,
                   cpd_keys, reactions, generation, partial_operators, tani_filter,
                   increasing_tani, crit_tani, target_smiles, num_workers, max_generations,
                   compound_smiles, white_list>>

Next ==
    \/ SetFragmentedMols
    \/ LoadCompoundSet
    \/ LoadPartialOperators
    \/ LoadTargetAndFilters
    \/ TransformAll
    \/ LoopExit
    \/ FilterTani
    \/ FilterMcs
    \/ NoFilter
    \/ ExpandFull
    \/ ExpandPartial
    \/ RemoveCofactorRedundancy
    \/ PruneNetwork
    \/ PruneNetworkToTargets
    \/ SaveToMine

Spec == Init /\ [][Next]_vars

\* a step of a call of transform_all that is in progress: inside the call the
\* only steps of Next are LoopExit, FilterTani, NoFilter, ExpandFull and
\* ExpandPartial, one of them is enabled, and each of them moves the position
TransformAllStep ==
    /\ pc \in {"loop", "mcs", "select", "partial"}
    /\ pc' \in {"loop", "mcs", "select", "partial", "expanded", "crashed"}
    /\ pc' # pc

\* transform_all is sequential code: once entered, its next step is taken
-----------------------------------------------------------------------------
(* update_cpds_rxns on its own: a registry that stores some reactions, and a
   delta handed back by the workers *)

\* the records a worker can hand back for one reaction: from the full
\* operators (no 'Partial Operators' key) or from the partial operators
WorkerRecords(reactants, products) ==
    {[_id |-> rxn2hash(reactants, products), Reactants |-> reactants, Products |-> products,
      Operators |-> ops, HasPartial |-> FALSE, Partial |-> {}] :
         ops \in (SUBSET {"R5", "R6"}) \ {{}}}
    \cup {[_id |-> rxn2hash(reactants, products), Reactants |-> reactants,
           Products |-> products, Operators |-> ops, HasPartial |-> TRUE, Partial |-> tags] :
              ops \in (SUBSET {"R5", "R6"}) \ {{}}, tags \in (SUBSET {"R5_1", "R6_1"}) \ {{}}}

\* A + B -> F and A + B -> D
ToF ==
    WorkerRecords(<< <<1, compound_hash("A", "Predicted")>>, <<1, compound_hash("B", "Predicted")>> >>,
                  << <<1, compound_hash("F", "Predicted")>> >>)

ToD ==
    WorkerRecords(<< <<1, compound_hash("A", "Predicted")>>, <<1, compound_hash("B", "Predicted")>> >>,
                  << <<1, compound_hash("D", "Predicted")>> >>)

\* new_cpds and new_rxns as a worker builds them: every product of a listed
\* reaction has its record
AsDelta(rxns, gen) ==
    [cpds |-> [c \in UNION {Ids(rxns[k].Products) : k \in DOMAIN rxns} |->
                  _gen_compound(c[2], <<>>, gen)],
     rxns |-> rxns]

MergeDeltas ==
    {AsDelta(<<r>>, 1) : r \in ToF \cup ToD} \cup {AsDelta(<<r, q>>, 1) : r \in ToF, q \in ToD}

\* the registry with A and B loaded, before anything is stored
Unmerged ==
    [compounds |-> AddAll(AddAll(<<>>, <<"W">>, "Coreactant", 0), <<"A", "B">>,
                          "Starting Compound", 0),
     keys |-> LoadedKeys(LoadedKeys(<<>>, <<"W">>, "Coreactant"), <<"A", "B">>,
                         "Starting Compound"),
     reactions |-> <<>>]

\* the state update_cpds_rxns is entered in, after an earlier merge of stored
MergeInit ==
    /\ \E stored \in MergeDeltas \cup {EmptyLocal} :
          /\ compounds = update_cpds_rxns(Unmerged.compounds, <<>>, stored).compounds
          /\ cpd_keys = NewKeys(Unmerged.keys, Unmerged.compounds, stored)
          /\ reactions = update_cpds_rxns(Unmerged.compounds, <<>>, stored).reactions
    /\ operators = <<"R1", "R2", "R3", "R4", "R5", "R6", "R7">>
    /\ coreactants = LoadedCoreactants(<<H2O>>)
    /\ generation = 1
    /\ partial_operators = <<>>
    /\ tani_filter = FALSE
    /\ increasing_tani = FALSE
    /\ crit_tani = NoCrit
    /\ mcs_filter = FALSE
    /\ crit_mcs = NoCrit
    /\ target_smiles = <<>>
    /\ num_workers = 1
    /\ max_generations = 1
    /\ compound_smiles = <<"A", "B">>
    /\ white_list = {}
    /\ fragmented_mols = FALSE
    /\ Reactions_predicted = NoneCounted(operators)
    /\ pc = "merge"
    /\ last = Note("init", {}, {})

\* update_cpds_rxns(new_cpds, new_rxns)
MergeDelta(new) ==
    /\ pc = "merge"
    /\ Merged(new, "update_cpds_rxns", "merged")
    /\ UNCHANGED <<Reactions_predicted, mcs_filter, crit_mcs, fragmented_mols, operators, coreactants, generation,
                   partial_operators, tani_filter, increasing_tani, crit_tani, target_smiles,
                   num_workers, max_generations, compound_smiles, white_list>>

UpdateCpdsRxns == \E new \in MergeDeltas : MergeDelta(new)

MergeSpec == MergeInit /\ [][UpdateCpdsRxns]_vars

(* load_partial_operators on its own: the libraries and mapped-reaction    *)
(* files it may be called with                                             *)

MaxLines == 3       \* most lines of a mapped-reaction file

\* libraries with and without rules of two 'Any' reactants, and none at all
PartialLibraries ==
    {[coreactant_list |-> <<H2O>>, rule_list |-> <<>>],
     [coreactant_list |-> <<H2O>>, rule_list |-> <<"R1">>],
     [coreactant_list |-> <<H2O>>, rule_list |-> <<"R5">>],
     [coreactant_list |-> <<H2O>>, rule_list |-> <<"R1", "R10">>],
     [coreactant_list |-> <<H2O>>, rule_list |-> <<"R5", "R6">>],
     [coreactant_list |-> <<H2O, CO>>, rule_list |-> <<"R1", "R5", "R6", "R10">>]}

\* the lines a mapped-reaction file may hold
MappedLines ==
    Range(MappedReactions)
    \cup {[rule |-> "R10_1", base |-> "R10", exact |-> <<"A", "B">>],
          [rule |-> "R10_2", base |-> "R10", exact |-> <<"D", "A">>],
          [rule |-> "R1_1", base |-> "R1", exact |-> <<"A">>]}

MappedFiles == UNION {[1..n -> MappedLines] : n \in 0..MaxLines}

PartialInit ==
    /\ \E lib \in PartialLibraries :
          /\ operators = Constructed(lib).operators
          /\ last = Note("init", {}, Range(lib.rule_list))
          /\ coreactants = LoadedCoreactants(lib.coreactant_list)
          /\ compounds = AddAll(<<>>, CoreactantSmiles(lib.coreactant_list), "Coreactant", 0)
          /\ cpd_keys = LoadedKeys(<<>>, CoreactantSmiles(lib.coreactant_list), "Coreactant")
    /\ pc = "new"
    /\ reactions = <<>>
    /\ generation = 0
    /\ partial_operators = <<>>
    /\ tani_filter = FALSE
    /\ increasing_tani = FALSE
    /\ crit_tani = NoCrit
    /\ mcs_filter = FALSE
    /\ crit_mcs = NoCrit
    /\ target_smiles = <<>>
    /\ num_workers = 1
    /\ max_generations = 1
    /\ compound_smiles = <<>>
    /\ white_list = {}
    /\ fragmented_mols = FALSE
    /\ Reactions_predicted = NoneCounted(operators)

\* pk.load_partial_operators(mapped_reactions)
load_partial_file(lines) ==
    /\ pc = "new"
    /\ last.step = "init"
    /\ partial_operators' = load_partial_operators(partial_operators, lines)
    /\ last' = Note("load_partial_operators", {}, {})
    /\ UNCHANGED <<Reactions_predicted, mcs_filter, crit_mcs, fragmented_mols, operators, coreactants, compounds,
                   cpd_keys, reactions, generation, tani_filter, increasing_tani, crit_tani,
                   target_smiles, num_workers, max_generations, compound_smiles, white_list,
                   pc>>

LoadPartialFile == \E lines \in MappedFiles : load_partial_file(lines)

PartialSpec == PartialInit /\ [][LoadPartialFile]_vars

LiveSpec == Init /\ [][Next]_vars /\ WF_pc(TransformAllStep)

-----------------------------------------------------------------------------
(* Properties *)

Members(rxn) == Ids(rxn.Reactants) \cup Ids(rxn.Products)

\* C1: after _filter_by has finished removing compounds and reactions for a
\* generation, no reaction that remains in the registry lists a deleted
\* compound among its reactants or its products.
C1_NoReactionListsDeleted ==
    last.step = "_filter_by" =>
        \A r \in DOMAIN reactions : Members(reactions[r]) \cap last.removed = {}

\* back-references agree with the reactions, every referenced id exists and
\* no list holds an id twice
Consistent(cpds, rxns) ==
    /\ \A r \in DOMAIN rxns : Members(rxns[r]) \subseteq DOMAIN cpds
    /\ \A c \in DOMAIN cpds :
          /\ Range(cpds[c].Product_of) \cup Range(cpds[c].Reactant_in) \subseteq DOMAIN rxns
          /\ NoDup(cpds[c].Product_of)
          /\ NoDup(cpds[c].Reactant_in)
    /\ \A r \in DOMAIN rxns : \A c \in {d \in DOMAIN cpds : ~startswith(d, "X")} :
          /\ r \in Range(cpds[c].Product_of) <=> c \in Ids(rxns[r].Products)
          /\ r \in Range(cpds[c].Reactant_in) <=> c \in Ids(rxns[r].Reactants)

\* C2: if back-references are consistent before a delta is merged by
\* update_cpds_rxns, they are consistent after it.
C2_MergeKeepsBackReferences ==
    [][(last'.step \in {"full", "partial"} /\ Consistent(compounds, reactions))
          => Consistent(compounds', reactions')]_vars

\* a merge into a consistent registry met a reaction already stored and left
\* compounds with both kinds of back-reference
C2_Witness ==
    /\ last.step = "partial"
    /\ generation = 2
    /\ Consistent(compounds, reactions)
    /\ \E c \in DOMAIN compounds :
          compounds[c].Product_of # <<>> /\ compounds[c].Reactant_in # <<>>

\* every reaction of the delta rxns is stored with at least its rule names
Recorded(rxns, stored) ==
    \A k \in DOMAIN rxns :
        /\ rxns[k]._id \in DOMAIN stored
        /\ rxns[k].Operators \subseteq stored[rxns[k]._id].Operators

\* C3: whenever two rule applications yield the same reaction id, the
\* registry ends up with one record for that id whose Operators holds the
\* names of both rules: after a merge every rule name of every input's delta
\* is in the stored record, and a stored record never loses a rule name.
C3_OperatorsOfAllApplications ==
    [][/\ last'.step = "full" =>
            \A i \in DOMAIN compound_smiles' :
                Recorded(_transform_ind_compound_with_full(compound_smiles'[i], generation').rxns,
                         reactions')
       /\ last'.step = "partial" =>
            \A i \in DOMAIN compound_smiles :
                Recorded(_transform_ind_compound_with_partial(
                             _filter_partial_operators(partial_operators, compounds),
                             compound_smiles[i], generation).rxns,
                         reactions')
       /\ \A r \in DOMAIN reactions \cap DOMAIN reactions' :
            reactions[r].Operators \subseteq reactions'[r].Operators]_vars

IsPrefix(s, t) == Len(s) <= Len(t) /\ \A i \in DOMAIN s : s[i] = t[i]

SideAtoms(half) ==
    [e \in Elements |-> SumSeq([i \in DOMAIN half |-> half[i][1] * AtomCount(half[i][2][2])[e]])]

Balanced(rxn) == SideAtoms(rxn.Reactants) = SideAtoms(rxn.Products)

\* what one rule application on one structure hands back
Application(rule_name, smi) ==
    _run_reaction(rule_name, FullReactantMols(rule_name, smi), EmptyLocal, generation + 1)

\* C5: every reaction in the registry is atom balanced, in every state of the
\* run (expansion, filtering, cofactor-redundancy collapse, pruning), and a
\* rule application hands back only balanced reactions and only compounds
\* that are products of the reactions it hands back.
C5_AtomBalance ==
    /\ \A r \in DOMAIN reactions : Balanced(reactions[r])
    /\ \A n \in DOMAIN operators : \A c \in {d \in DOMAIN compounds : startswith(d, "C")} :
          /\ \A k \in DOMAIN Application(operators[n], compounds[c].SMILES).rxns :
                Balanced(Application(operators[n], compounds[c].SMILES).rxns[k])
          /\ \A d \in DOMAIN Application(operators[n], compounds[c].SMILES).cpds :
                \E k \in DOMAIN Application(operators[n], compounds[c].SMILES).rxns :
                    d \in Ids(Application(operators[n], compounds[c].SMILES).rxns[k].Products)

\* a filtered, collapsed and pruned registry that still holds a corrected
\* reaction, from a library with a rule (R2) that proposes an unbalanced
\* product
C5_Witness ==
    /\ pc = "pruned"
    /\ tani_filter
    /\ "R2" \in Range(operators)
    /\ \E r \in DOMAIN reactions :
          /\ "R3" \in reactions[r].Operators
          /\ \E p \in Ids(reactions[r].Products) : startswith(p, "X")

\* the registry a merge of the master new leaves, from the registry reg
MergedInto(reg, new) ==
    LET merged == update_cpds_rxns(reg.compounds, reg.reactions, new)
    IN [compounds |-> merged.compounds,
        keys |-> NewKeys(reg.keys, reg.compounds, new),
        reactions |-> merged.reactions]

\* _transform_helper on the registry reg: the inputs reach the full master
\* loop in the order full_order and the partial one in partial_order
HelperWith(reg, full_order, partial_order, gen, workers) ==
    LET full == MergedInto(reg, _transform_all_compounds_with_full(full_order, gen))
        filtered == _filter_partial_operators(partial_operators, full.compounds)
    IN IF partial_operators = <<>> \/ filtered = <<>>
       THEN full
       ELSE MergedInto(full, _transform_all_compounds_with_partial(partial_order, filtered,
                                                                   gen, workers))

\* transform_all without a filter, in the serial branch, from generation gen
RECURSIVE SerialRounds(_, _)
SerialRounds(reg, gen) ==
    IF gen >= max_generations \/ Selected(reg.compounds, reg.keys, gen + 1) = <<>>
    THEN reg
    ELSE SerialRounds(HelperWith(reg, Selected(reg.compounds, reg.keys, gen + 1),
                                 Selected(reg.compounds, reg.keys, gen + 1), gen + 1, 1),
                      gen + 1)

\* the registry as load_compound_set left it (an unfiltered run deletes nothing)
Loaded ==
    [compounds |-> [c \in {d \in DOMAIN compounds : compounds[d].Type # "Predicted"} |->
                       [compounds[c] EXCEPT !.Product_of = <<>>, !.Reactant_in = <<>>]],
     keys |-> Ranked(cpd_keys, {d \in DOMAIN compounds : compounds[d].Type # "Predicted"}),
     reactions |-> <<>>]

Here == [compounds |-> compounds, keys |-> cpd_keys, reactions |-> reactions]

\* the partial operators _transform_helper would apply now
Applicable == _filter_partial_operators(partial_operators, compounds)

\* C6: for the same starting compounds, coreactants and operators,
\* transform_all with several workers, under any completion order, ends with
\* the compound ids and the reaction ids of the run with one worker; and
\* within one generation every completion order of either pool gives the
\* ids of the serial branch.
C6_SameIds ==
    /\ (pc = "expanded" /\ ~tani_filter /\ ~mcs_filter) =>
          LET serial == SerialRounds(Loaded, 0)
          IN /\ DOMAIN compounds = DOMAIN serial.compounds
             /\ DOMAIN reactions = DOMAIN serial.reactions
    /\ (pc = "select" /\ Selected(compounds, cpd_keys, generation + 1) # <<>>) =>
          LET smis == Selected(compounds, cpd_keys, generation + 1)
              serial == MergedInto(Here, _transform_all_compounds_with_full(smis, generation + 1))
          IN \A order \in Perms(Range(smis)) :
                LET pool == MergedInto(Here, _transform_all_compounds_with_full(
                                                 order, generation + 1))
                IN /\ DOMAIN pool.compounds = DOMAIN serial.compounds
                   /\ DOMAIN pool.reactions = DOMAIN serial.reactions
    /\ (pc = "partial" /\ Applicable # <<>>) =>
          LET serial == MergedInto(Here, _transform_all_compounds_with_partial(
                                             compound_smiles, Applicable, generation, 1))
          IN \A order \in Perms(Range(compound_smiles)) :
                LET pool == MergedInto(Here, _transform_all_compounds_with_partial(
                                                 order, Applicable, generation, 2))
                IN /\ DOMAIN pool.compounds = DOMAIN serial.compounds
                   /\ DOMAIN pool.reactions = DOMAIN serial.reactions

\* an unfiltered run with two workers, two inputs in a generation and partial
\* operators has ended, with reaction records that differ from the serial
\* run's
C6_Witness ==
    /\ pc = "expanded"
    /\ ~tani_filter /\ ~mcs_filter
    /\ num_workers = 2
    /\ Len(compound_smiles) >= 2
    /\ partial_operators # <<>>
    /\ reactions # SerialRounds(Loaded, 0).reactions

\* C7: the full content of the final registry, each reaction's Operators and
\* Partial Operators included, depends neither on the number of workers nor
\* on the order in which the deltas of a generation are combined, in the
\* serial branch or the parallel one.
C7_SameRecords ==
    /\ (pc = "expanded" /\ ~tani_filter /\ ~mcs_filter) => reactions = SerialRounds(Loaded, 0).reactions
    /\ (pc = "select" /\ Selected(compounds, cpd_keys, generation + 1) # <<>>) =>
          LET smis == Selected(compounds, cpd_keys, generation + 1)
              serial == MergedInto(Here, _transform_all_compounds_with_full(smis, generation + 1))
          IN \A order \in Perms(Range(smis)) :
                MergedInto(Here, _transform_all_compounds_with_full(order, generation + 1)).reactions
                   = serial.reactions
    /\ (pc = "partial" /\ Applicable # <<>>) =>
          LET serial == MergedInto(Here, _transform_all_compounds_with_partial(
                                             compound_smiles, Applicable, generation, 1))
          IN \A order \in Perms(Range(compound_smiles)) : \A workers \in {1, 2} :
                MergedInto(Here, _transform_all_compounds_with_partial(
                                     order, Applicable, generation, workers)).reactions
                   = serial.reactions

\* the backward closure of S over the Product_of lists: the generated
\* reactants of every reaction that produces a member, to the fixed point
RECURSIVE BackwardClosure(_, _, _)
BackwardClosure(S, cpds, rxns) ==
    LET producers == UNION {Range(cpds[d].Product_of) \cap DOMAIN rxns : d \in S \cap DOMAIN cpds}
        more == {c \in UNION {Ids(rxns[r].Reactants) : r \in producers} : startswith(c, "C")}
    IN IF more \subseteq S THEN S ELSE BackwardClosure(S \cup more, cpds, rxns)

\* every retained reaction has a retained product in the closure cl
ReactionsReachClosure(cpds, rxns, cl) ==
    \A r \in DOMAIN rxns : \E p \in Ids(rxns[r].Products) \cap DOMAIN cpds : p \in cl

\* C8 as stated: after prune_network with whitelist W every retained reaction
\* has a retained product in the backward closure of W, and every retained
\* compound is in that closure or is a coreactant used by a retained
\* reaction.
C8_OnlyClosureAndCoreactants ==
    [][last'.step = "prune_network" =>
          LET cl == BackwardClosure(white_list', compounds, reactions)
          IN /\ ReactionsReachClosure(compounds', reactions', cl)
             /\ \A c \in DOMAIN compounds' :
                   \/ c \in cl
                   \/ /\ startswith(c, "X")
                      /\ \E r \in DOMAIN reactions' : c \in Members(reactions'[r])]_vars

\* C8, amended: after prune_network with whitelist W every retained reaction
\* has a retained product in the backward closure of W, and every retained
\* compound is in that closure, or is a reactant or product of a retained
\* reaction (a coreactant or a co-product), or is a target compound kept
\* because the Tanimoto filter is on.
C8_ClosureMembersAndTargets ==
    [][last'.step = "prune_network" =>
          LET cl == BackwardClosure(white_list', compounds, reactions)
          IN /\ ReactionsReachClosure(compounds', reactions', cl)
             /\ \A c \in DOMAIN compounds' :
                   \/ c \in cl
                   \/ \E r \in DOMAIN reactions' : c \in Members(reactions'[r])
                   \/ tani_filter /\ startswith(c, "T")]_vars

\* a pruning that removed compounds and kept a reaction, a generated
\* co-product outside the closure and a target compound
C8_Witness ==
    /\ last.step = "prune_network"
    /\ white_list # {}
    /\ last.removed # {}
    /\ reactions # <<>>
    /\ \E c \in DOMAIN compounds : startswith(c, "C") /\ c \notin last.hit
    /\ \E c \in DOMAIN compounds : startswith(c, "T")

\* C10: one generation of transform_all, without filters, on a registry
\* holding the starting compound A, the coreactant H2O and the rule R1
\* (Any + H2O -> Any, one balanced single-fragment product B for A) adds
\* exactly the compound B (Generation 1, Expand true) and exactly one
\* reaction, with Operators {R1}, listed in A's Reactant_in and B's Product_of.
C10_OneCompoundOneReaction ==
    (/\ pc = "expanded"
     /\ operators = <<"R1">>
     /\ DOMAIN coreactants = {"H2O"}
     /\ {c \in DOMAIN compounds : compounds[c].Type = "Starting Compound"}
           = {compound_hash("A", "Starting Compound")}
     /\ ~tani_filter /\ ~mcs_filter
     /\ partial_operators = <<>>
     /\ max_generations = 1)
    => LET a == compound_hash("A", "Starting Compound")
           b == compound_hash("B", "Predicted")
           w == coreactants["H2O"].id
           rid == rxn2hash(<<<<1, a>>, <<1, w>>>>, <<<<1, b>>>>)
       IN /\ DOMAIN compounds = {a, b, w}
          /\ compounds[b].SMILES = "B"
          /\ compounds[b].Type = "Predicted"
          /\ compounds[b].Generation = 1
          /\ compounds[b].Expand
          /\ DOMAIN reactions = {rid}
          /\ reactions[rid].Operators = {"R1"}
          /\ reactions[rid].Reactants = <<<<1, a>>, <<1, w>>>>
          /\ reactions[rid].Products = <<<<1, b>>>>
          /\ compounds[a].Reactant_in = <<rid>>
          /\ compounds[a].Product_of = <<>>
          /\ compounds[b].Product_of = <<rid>>
          /\ compounds[b].Reactant_in = <<>>

C10_Witness ==
    /\ pc = "expanded"
    /\ operators = <<"R1">>
    /\ DOMAIN coreactants = {"H2O"}
    /\ {c \in DOMAIN compounds : compounds[c].Type = "Starting Compound"}
          = {compound_hash("A", "Starting Compound")}
    /\ ~tani_filter /\ ~mcs_filter
    /\ partial_operators = <<>>
    /\ max_generations = 1
    /\ generation = 1
    /\ last.step = "return"

\* C11: a candidate product set that holds a product of two disconnected
\* fragments adds no reaction and no compound when fragmented_mols is false,
\* and gives a reaction with the multi-fragment structure as one product
\* compound when fragmented_mols is true.
C11_FragmentedProductsByFlag ==
    \A i \in DOMAIN operators : \A c \in DOMAIN compounds :
       LET sets == RunReactants(operators[i], FullReactantMols(operators[i], compounds[c].SMILES))
           res == Application(operators[i], compounds[c].SMILES)
       IN \A k \in DOMAIN sets : \A j \in DOMAIN sets[k] :
             Fragmented(sets[k][j]) =>
                IF fragmented_mols
                THEN \E r \in DOMAIN res.rxns :
                        compound_hash(sets[k][j], "Predicted") \in Ids(res.rxns[r].Products)
                ELSE /\ compound_hash(sets[k][j], "Predicted") \notin DOMAIN res.cpds
                     /\ \A r \in DOMAIN res.rxns :
                           compound_hash(sets[k][j], "Predicted") \notin Ids(res.rxns[r].Products)

\* C12: transform_all always terminates.  A round starts only while the
\* generation counter is below max_generations and raises the counter by
\* one, nothing else changes the counter, so from counter g at most
\* max_generations - g rounds run and the counter never exceeds
\* max_generations; a round whose selection is empty ends the call without
\* applying a rule; and a call that was entered always returns (or raises).
C12_TransformAllTerminates ==
    /\ [](generation <= max_generations)
    /\ [][/\ generation' # generation =>
              /\ pc = "select"
              /\ generation < max_generations
              /\ generation' = generation + 1
          /\ (pc = "select" /\ Selected(compounds, cpd_keys, generation + 1) = <<>>) =>
              /\ pc' = "expanded"
              /\ compounds' = compounds /\ reactions' = reactions
          /\ (pc = "loop" /\ generation = max_generations) => pc' = "expanded"]_vars
    /\ (pc \in {"loop", "mcs", "select", "partial"}) ~> (pc \in {"expanded", "crashed"})

\* a call that ran a round and stopped at the empty selection of the next one
C12_Witness ==
    /\ pc = "expanded"
    /\ last.step = "nothing to expand"
    /\ generation > 1

\* the delta new merges into the registry reg without a KeyError
Mergeable(reg, new) ==
    ~MergeKeyError(reg.compounds, new) /\ ~MergePartialKeyError(reg.reactions, new)

\* merging new into reg a second time changes nothing
MergedTwiceIsOnce(reg, new) ==
    Mergeable(reg, new) =>
        /\ Mergeable(MergedInto(reg, new), new)
        /\ MergedInto(MergedInto(reg, new), new) = MergedInto(reg, new)

\* C13: update_cpds_rxns applied a second time with the same delta leaves the
\* registry as the first merge left it: no new record, no change to an
\* Operators or Partial Operators set, no duplicated back-reference.  Checked
\* for the delta of every arrival order of both halves of _transform_helper.
C13_MergeIdempotent ==
    /\ (pc = "select" /\ Selected(compounds, cpd_keys, generation + 1) # <<>>) =>
          \A order \in Perms(Range(Selected(compounds, cpd_keys, generation + 1))) :
             MergedTwiceIsOnce(Here, _transform_all_compounds_with_full(order, generation + 1))
    /\ (pc = "partial" /\ Applicable # <<>>) =>
          \A order \in Perms(Range(compound_smiles)) : \A workers \in {1, 2} :
             MergedTwiceIsOnce(Here, _transform_all_compounds_with_partial(
                                         order, Applicable, generation, workers))

\* a delta is about to be merged that holds a reaction the registry already
\* stores, with a rule name the stored record does not have yet
C13_Witness ==
    /\ pc = "partial"
    /\ Applicable # <<>>
    /\ \E order \in Perms(Range(compound_smiles)) :
          LET new == _transform_all_compounds_with_partial(order, Applicable, generation, 1)
          IN /\ Mergeable(Here, new)
             /\ \E k \in DOMAIN new.rxns :
                   /\ new.rxns[k]._id \in DOMAIN reactions
                   /\ ~(new.rxns[k].Operators \subseteq reactions[new.rxns[k]._id].Operators)

\* C14: after remove_cofactor_redundancy, however many generated compounds
\* have the structure of a coreactant, none of them is left in the registry,
\* every reaction that listed one of them has been deleted, and no reaction
\* that is left lists one of them.
C14_NoCofactorCompoundLeft ==
    [][(pc = "expanded" /\ pc' = "collapsed") =>
          LET cof == cofactors_as_cpds(compounds)
          IN /\ cof \cap DOMAIN compounds' = {}
             /\ \A r \in DOMAIN reactions :
                   Members(reactions[r]) \cap cof # {} => r \notin DOMAIN reactions'
             /\ \A r \in DOMAIN reactions' : Members(reactions'[r]) \cap cof = {}]_vars

\* C15: an operator whose template has a number of reactant or product
\* patterns different from the length of its Reactants or Products role list
\* is not in the operator library (loading it aborts with an error).
C15_ArityMismatchRejected ==
    \A i \in DOMAIN operators :
       /\ Templates(operators[i]).reactants = Len(RuleFile(operators[i]).Reactants)
       /\ Templates(operators[i]).products = Len(RuleFile(operators[i]).Products)

\* the rows r of a rule file that _load_operators must refuse: a Name that
\* another row of the file has too, or a role that is no loaded coreactant
Refused(rows) ==
    {r \in rows :
        \/ \E q \in rows \ {r} : RuleFile(q).Name = RuleFile(r).Name
        \/ \E x \in Range(RuleFile(r).Reactants \o RuleFile(r).Products) :
              x \notin DOMAIN coreactants \cup {"Any"}}

\* C16: loading an operator whose name is already in the library, or whose
\* role lists name something that is neither 'Any' nor a loaded coreactant,
\* raises an error; the operator stored under that name is not overwritten,
\* operator names stay unique and every fixed role of a loaded operator names
\* a loaded coreactant.
C16_BadOperatorRaises ==
    /\ NoDup([i \in DOMAIN operators |-> RuleFile(operators[i]).Name])
    /\ \A i \in DOMAIN operators :
          Range(RuleFile(operators[i]).Reactants \o RuleFile(operators[i]).Products)
             \subseteq DOMAIN coreactants \cup {"Any"}
    /\ last.step \in {"init", "ValueError"} =>
          /\ Refused(last.hit) # {} <=> last.step = "ValueError"
          /\ last.step = "ValueError" => pc = "crashed"
    /\ \A lib \in Libraries : IsPrefix(Constructed(lib).operators, lib.rule_list)

\* construction stopped at a second row named R1, with the first one stored
C16_Witness ==
    /\ pc = "crashed"
    /\ last.step = "ValueError"
    /\ "R1b" \in last.hit
    /\ operators = <<"R1">>

\* C17: when a similarity filter (Tanimoto or MCS) is enabled and no target
\* has been loaded, transform_all applies no rule and leaves the compounds,
\* the reactions and the generation counter unchanged: inside the call the
\* only step is the return, and no expansion position is ever reached; and
\* load_target_and_filters called without a target file raises an error.
C17_NoTargetNoExpansion ==
    /\ [][((tani_filter \/ mcs_filter) /\ target_smiles = <<>>
            /\ pc \in {"loop", "mcs", "select", "partial"})
           => /\ pc' = "expanded"
              /\ last'.step = "no targets"
              /\ compounds' = compounds
              /\ reactions' = reactions
              /\ generation' = generation]_vars
    /\ []((tani_filter \/ mcs_filter) /\ target_smiles = <<>>
             => /\ pc \notin {"mcs", "select", "partial"}
                /\ reactions = <<>>
                /\ generation = 0)
    /\ [][\A f \in FilterChoices :
             load_target_and_filters(f, [given |-> FALSE, rows |-> <<>>])
                => pc' = "crashed" /\ last'.step = "ValueError: no target file"]_vars

\* an MCS-filtered run whose target file gave no target has come back from
\* transform_all with a starting compound and rules loaded
C17_Witness ==
    /\ pc = "expanded"
    /\ last.step = "no targets"
    /\ mcs_filter /\ ~tani_filter
    /\ target_smiles = <<>>
    /\ operators # <<>>
    /\ \E c \in DOMAIN compounds : compounds[c].Type = "Starting Compound"

\* the inputs of a selection that have a parse
RECURSIVE WithParse(_)
WithParse(smis) ==
    IF smis = <<>> THEN <<>>
    ELSE IF MolFromSmiles(Head(smis)) THEN <<Head(smis)>> \o WithParse(Tail(smis))
    ELSE WithParse(Tail(smis))

\* C18: if one input structure of a generation cannot be parsed by the worker
\* that expands it, that structure is skipped and the generation still
\* completes: the expansion does not raise, and every compound and reaction
\* produced from the other input structures of the generation is in the
\* registry afterwards, in the serial and in the parallel branch.
C18_UnparsableInputSkipped ==
    [][(/\ pc = "select"
        /\ unpack_raises(Selected(compounds, cpd_keys, generation + 1))
        /\ WithParse(Selected(compounds, cpd_keys, generation + 1)) # <<>>)
       => LET others == _transform_all_compounds_with_full(
                            WithParse(Selected(compounds, cpd_keys, generation + 1)),
                            generation + 1)
          IN /\ pc' # "crashed"
             /\ DOMAIN others.cpds \subseteq DOMAIN compounds'
             /\ RxnIds(others.rxns) \subseteq DOMAIN reactions']_vars

\* the ids of the structures a run can generate
GeneratedIds == {compound_hash(smi, "Predicted") : smi \in {"A", "B", "D", "F", "G", "I", "W"}}

\* C19: across a whole run of transform_all, with or without filtering, the
\* Generation recorded for a compound id is the generation at which the
\* compound was first produced and never changes afterwards: once an id is
\* recorded with a generation, it has that generation whenever it is in the
\* registry later, also when the compound is produced again.
C19_GenerationNeverChanges ==
    \A c \in GeneratedIds : \A g \in 0..MaxGen :
        []((c \in DOMAIN compounds /\ compounds[c].Generation = g)
              => []((c \in DOMAIN compounds) => compounds[c].Generation = g))

Structures == {"A", "B", "D", "F", "G", "I", "W", "Q", "A.W"}

\* C21: in every round of transform_all the filter of the current generation
\* runs before the selection; the structures handed to rule application are
\* exactly those of the registry compounds of the current generation whose
\* Expand flag is true and whose type is neither Coreactant nor Target
\* Compound, each once; and a structure handed over in one round is not
\* handed over in a later round.
C21_SelectionAfterFilter ==
    /\ [][pc = "select" =>
             LET eligible == {c \in DOMAIN compounds :
                                 /\ compounds[c].Generation = generation
                                 /\ compounds[c].Type \in {"Starting Compound", "Predicted"}
                                 /\ compounds[c].Expand}
             IN /\ Range(compound_smiles') = {compounds[c].SMILES : c \in eligible}
                /\ Len(compound_smiles') = Cardinality(eligible)
                /\ last'.step \in {"full", "KeyError"} => compound_smiles' # <<>>]_vars
    /\ [][(pc' = "select" /\ pc # "select") =>
             /\ pc \in {"loop", "mcs"}
             /\ tani_filter /\ ~mcs_filter => pc = "loop" /\ last'.step = "_filter_by"
             /\ mcs_filter => last'.step = "_filter_by" /\ (tani_filter <=> pc = "mcs")
             /\ generation' = generation]_vars
    /\ [][(pc' = "mcs" /\ pc # "mcs") =>
             pc = "loop" /\ tani_filter /\ last'.step = "_filter_by"]_vars
    /\ \A smi \in Structures : \A g \in 1..MaxGen :
          []((smi \in Range(compound_smiles) /\ generation = g)
                => [](generation > g => smi \notin Range(compound_smiles)))

\* the second round of a filtered run has handed structures of generation 1 to
\* rule application while a compound of that generation that failed the
\* filter stays in the registry
C21_Witness ==
    /\ last.step = "full"
    /\ generation > 1
    /\ tani_filter
    /\ compound_smiles # <<>>
    /\ \E c \in DOMAIN compounds :
          /\ compounds[c].Generation = generation - 1
          /\ compounds[c].Type = "Predicted"
          /\ ~compounds[c].Expand

\* the largest similarity of a structure over all targets
BestSimilarity(smi) ==
    LET sims == {FingerprintSimilarity(smi, target_fps[i]) : i \in DOMAIN target_fps}
    IN CHOOSE x \in sims : \A y \in sims : y <= x

\* C22: after the Tanimoto filter of generation g with increasing_tani off,
\* every checked compound that is still in the registry has Expand true
\* exactly when its best similarity over all targets is at least the
\* threshold of generation g (crit_tani[g] for a list, the scalar otherwise);
\* a compound whose fingerprinting fails has Expand false.
C22_ExpandIffBestSimilarity ==
    /\ [][(pc = "loop" /\ tani_filter /\ ~increasing_tani /\ last'.step = "_filter_by")
          => \A c \in DOMAIN compounds' :
                (/\ compounds'[c].Generation = generation
                 /\ compounds'[c].Type \notin {"Coreactant", "Target Compound"})
                => /\ MolFromSmiles(compounds'[c].SMILES) =>
                         (compounds'[c].Expand <=>
                             BestSimilarity(compounds'[c].SMILES)
                                >= (IF crit_tani.isList THEN crit_tani.list[generation + 1]
                                    ELSE crit_tani.scalar))
                   /\ ~MolFromSmiles(compounds'[c].SMILES) => ~compounds'[c].Expand]_vars
    /\ [][(pc = "loop" /\ tani_filter /\ ~no_targets(target_fps))
          => \A c \in compounds_to_check(compounds, generation) :
                ~MolFromSmiles(compounds[c].SMILES)
                   => ~Scored(compounds, generation, "tani")[c].Expand]_vars

\* a Tanimoto filter with increasing_tani off has left one checked compound
\* that reaches the threshold only for the second target, and one that
\* reaches it for no target
C22_Witness ==
    /\ last.step = "_filter_by"
    /\ tani_filter /\ ~mcs_filter /\ ~increasing_tani
    /\ pc = "select"
    /\ \E c, d \in DOMAIN compounds :
          /\ compounds[c].Generation = generation /\ compounds[c].Type = "Predicted"
          /\ compounds[c].Expand
          /\ FingerprintSimilarity(compounds[c].SMILES, target_fps[1]) < CritVal(crit_tani, generation)
          /\ compounds[d].Generation = generation /\ compounds[d].Type = "Predicted"
          /\ ~compounds[d].Expand

\* the non-coreactant products of a reaction record
CProducts(rxn) == {c \in Ids(rxn.Products) : startswith(c, "C")}

\* C23: during the filter cascade a reaction is deleted only if every one of
\* its non-coreactant products failed the filter; every reaction that has at
\* least one product surviving the cascade is kept; and no product compound
\* of a kept reaction is deleted, whatever the order in which the reactions
\* are examined.
C23_CascadeKeepsNeededReactions ==
    [][(pc \in {"loop", "mcs"} /\ last'.step = "_filter_by")
       => /\ \A r \in DOMAIN reactions \ DOMAIN reactions' :
                \A c \in CProducts(reactions[r]) :
                   /\ c \in DOMAIN compounds => compounds[c].Generation = generation
                   /\ c \in DOMAIN compounds' => ~compounds'[c].Expand
          /\ \A r \in DOMAIN reactions :
                (\E c \in CProducts(reactions[r]) : c \in DOMAIN compounds')
                   => r \in DOMAIN reactions'
          /\ \A r \in DOMAIN reactions' :
                \A c \in CProducts(reactions'[r]) :
                   c \in DOMAIN compounds => c \in DOMAIN compounds']_vars


\* lines 888-925 applied to a registry whose Expand flags are already set
RemovalStep(cpds, rxns, gen, order) ==
    Cascade([compounds |-> cpds, reactions |-> rxns,
             cpds_to_remove |-> ToRemove(cpds, gen), err |-> FALSE], order)

Restrict(order, S) == SelectSeq(order, LAMBDA r : r \in S)

\* the measure of the filter block that runs from the current position
MeasureHere == IF pc = "loop" /\ tani_filter THEN "tani" ELSE "mcs"

ConsistentBackReferences(cpds, rxns) ==
    \A c \in DOMAIN cpds :
       Range(cpds[c].Product_of) = {r \in DOMAIN rxns : c \in Ids(rxns[r].Products)}

\* the least set that contains the compounds of W present in the registry
\* and, for every reaction producing a member, its non-coreactant reactants
RECURSIVE ClosureOf(_, _, _)
ClosureOf(S, cpds, rxns) ==
    LET more == {c \in UNION {Ids(rxns[r].Reactants) :
                                 r \in {q \in DOMAIN rxns : Ids(rxns[q].Products) \cap S # {}}} :
                    startswith(c, "C")}
    IN IF more \subseteq S THEN S ELSE ClosureOf(S \cup more, cpds, rxns)

\* the reactions producing a member of cl
ProducersOf(cl, rxns) == {r \in DOMAIN rxns : Ids(rxns[r].Products) \cap cl # {}}

ReactantOfSome(c, rxns) == \E r \in DOMAIN rxns : c \in Ids(rxns[r].Reactants)

CorrectedId(rxn, cof) == rxn2hash(Substituted(rxn.Reactants, cof), Substituted(rxn.Products, cof))

\* C27: after remove_cofactor_redundancy, for every original reaction that
\* referenced a cofactor-like generated compound (one or two of them), the
\* registry holds the reaction with the corrected id, and its Operators
\* contains every operator of the original reaction and of the corrected
\* reaction that existed before.
C27_CorrectedReactionHoldsOperators ==
    [][(pc = "expanded" /\ pc' = "collapsed") =>
          LET cof == cofactors_as_cpds(compounds)
          IN \A r \in DOMAIN reactions :
                Members(reactions[r]) \cap cof # {} =>
                   LET cid == CorrectedId(reactions[r], cof)
                   IN /\ cid \in DOMAIN reactions'
                      /\ reactions[r].Operators \subseteq reactions'[cid].Operators
                      /\ cid \in DOMAIN reactions =>
                            reactions[cid].Operators \subseteq reactions'[cid].Operators]_vars


\* the bindings of a partial-operator dict, each with the key it is under
BindingsOf(po) ==
    UNION {{<<po[k].key, po[k].rules[j]>> : j \in DOMAIN po[k].rules} : k \in DOMAIN po}

\* the ids of the fixed reactants of a binding: every position but the open
\* slot, a coreactant by its name, a bound structure by its hash
FixedIds(b) ==
    {IF RuleFile(b.rule).Reactants[i] # "Any" THEN coreactants[b.reactants[i]].id
     ELSE compound_hash(b.reactants[i], "Predicted") :
        i \in {j \in DOMAIN b.reactants : b.reactants[j] # "SMARTS_match"}}

\* C28: in each generation the partial bindings handed to the partial
\* expansion are exactly the stored bindings whose every fixed reactant is in
\* the registry once the full-operator results of the generation are merged;
\* the partial expansion leaves the stored bindings as they are, so that the
\* next generation filters the same bindings against the grown registry.
C28_BindingsWithExistingReactants ==
    [][(pc = "partial")
       => /\ BindingsOf(_filter_partial_operators(partial_operators, compounds))
                = {kb \in BindingsOf(partial_operators) : FixedIds(kb[2]) \subseteq DOMAIN compounds}
          /\ \A kb \in BindingsOf(partial_operators) :
                (\E k \in DOMAIN reactions' :
                    /\ kb[2].rule_reaction \in reactions'[k].Partial
                    /\ (k \in DOMAIN reactions => kb[2].rule_reaction \notin reactions[k].Partial))
                   => FixedIds(kb[2]) \subseteq DOMAIN compounds
          /\ partial_operators' = partial_operators]_vars

\* a partial expansion of generation 2 has run with a binding one of whose
\* fixed reactants is a compound of generation 2 that a full operator
\* produced (a reaction without partial operators makes it): the binding was
\* excluded in generation 1 and is handed over in generation 2
C28_Witness ==
    /\ last.step = "partial"
    /\ generation = 2
    /\ \E kb \in BindingsOf(partial_operators) :
          /\ FixedIds(kb[2]) \subseteq DOMAIN compounds
          /\ \E c \in FixedIds(kb[2]) :
                /\ compounds[c].Generation = 2
                /\ \E r \in DOMAIN reactions :
                      c \in Ids(reactions[r].Products) /\ reactions[r].Partial = {}
          /\ \E k \in DOMAIN reactions : kb[2].rule_reaction \in reactions[k].Partial


\* binding kb (key and rule), applied on its own to the compound smi,
\* produces the reaction rxn_id
BindingProduces(kb, smi, rxn_id, gen) ==
    /\ QuickSmartsMatch(smi, kb[1])
    /\ rxn_id \in RxnIds(ApplyBinding(kb[2], smi, EmptyLocal, gen).rxns)

\* C29: a partial-rule identifier enters the Partial Operators of a reaction
\* only if applying a binding of that identifier to some compound of the
\* generation produced that reaction; a reaction found by one binding is not
\* attributed to a binding applied later to the same compound.
C29_PartialOperatorsOnlyOfProducers ==
    [][(pc = "partial" /\ last'.step = "partial")
       => \A k \in DOMAIN reactions' :
             \A q \in reactions'[k].Partial \
                      (IF k \in DOMAIN reactions THEN reactions[k].Partial ELSE {}) :
                \E kb \in BindingsOf(_filter_partial_operators(partial_operators, compounds)) :
                   \E i \in DOMAIN compound_smiles :
                      /\ kb[2].rule_reaction = q
                      /\ BindingProduces(kb, compound_smiles[i], k, generation)]_vars


\* the lines of a file that give bindings: the base rule is loaded and has
\* at least two 'Any' reactants
UsableLines(lines) ==
    {k \in DOMAIN lines : /\ lines[k].base \in Range(operators)
                          /\ Count(RuleFile(lines[k].base).Reactants, "Any") >= 2}

\* the open positions of a binding
OpenSlots(b) == {i \in DOMAIN b.reactants : b.reactants[i] = "SMARTS_match"}

\* the number of bindings a partial-operator dict holds
RECURSIVE CountBindings(_)
CountBindings(po) == IF po = <<>> THEN 0 ELSE Len(Head(po).rules) + CountBindings(Tail(po))

RECURSIVE SumAny(_, _)
SumAny(lines, K) ==
    IF K = {} THEN 0
    ELSE LET k == CHOOSE x \in K : TRUE
         IN Count(RuleFile(lines[k].base).Reactants, "Any") + SumAny(lines, K \ {k})

\* C30: every binding stored by load_partial_operators comes from a loaded
\* base rule with at least two 'Any' reactants and has exactly one open slot;
\* every other 'Any' position holds a structure of the mapped reaction, a
\* coreactant position keeps the coreactant name, a usable line gives one
\* binding per 'Any' position, each under the template fragment of its open
\* position; with no operator loaded nothing is stored.
C30_BindingsOfLoadedRules ==
    [][\A lines \in MappedFiles :
          load_partial_file(lines) =>
             /\ \A kb \in BindingsOf(partial_operators') :
                   LET b == kb[2]
                       roles == RuleFile(b.rule).Reactants
                   IN /\ b.rule \in Range(operators)
                      /\ Count(roles, "Any") >= 2
                      /\ Len(b.reactants) = Len(roles)
                      /\ Cardinality(OpenSlots(b)) = 1
                      /\ \A i \in OpenSlots(b) :
                            roles[i] = "Any" /\ kb[1] = ind_SMARTS(b.rule)[i]
                      /\ \A j \in DOMAIN roles \ OpenSlots(b) :
                            IF roles[j] = "Any"
                            THEN \E k \in UsableLines(lines) :
                                    /\ lines[k].rule = b.rule_reaction
                                    /\ b.reactants[j] = lines[k].exact[AnyUpTo(roles, j)]
                            ELSE b.reactants[j] = roles[j]
             /\ \A k \in UsableLines(lines) :
                   \A i \in {j \in DOMAIN RuleFile(lines[k].base).Reactants :
                                RuleFile(lines[k].base).Reactants[j] = "Any"} :
                      \E kb \in BindingsOf(partial_operators') :
                         /\ kb[2].rule_reaction = lines[k].rule
                         /\ OpenSlots(kb[2]) = {i}
             /\ CountBindings(partial_operators') = SumAny(lines, UsableLines(lines))
             /\ operators = <<>> => partial_operators' = <<>>]_vars

\* a file with a line of R10 (a coreactant between two 'Any' reactants) was
\* loaded next to the rule: two bindings, each with H2O kept by name
C30_Witness ==
    /\ last.step = "load_partial_operators"
    /\ \E kb \in BindingsOf(partial_operators) :
          /\ kb[2].rule = "R10"
          /\ kb[2].reactants[2] = "H2O"
          /\ kb[2].reactants[3] = "SMARTS_match"
          /\ kb[1] = "p10b"
    /\ CountBindings(partial_operators) >= 4


\* the MCS block of an iteration is about to run with targets loaded and the
\* threshold given as one number
McsScalarRound ==
    /\ \/ pc = "mcs"
       \/ pc = "loop" /\ while_generation(generation, max_generations) /\ ~tani_filter
    /\ mcs_filter
    /\ ~no_targets(target_smiles)
    /\ ~crit_mcs.isList

\* C31: with MCS filtering on and the threshold given as a single scalar,
\* the MCS round of every generation completes without error and applies the
\* scalar: a checked compound keeps Expand true exactly when its overlap
\* with some target is at least the scalar.
C31_ScalarMcsThresholdApplied ==
    [][McsScalarRound
       => /\ pc' = "select"
          /\ \A c \in compounds_to_check(compounds, generation) \cap DOMAIN compounds' :
                compounds'[c].Expand
                   <=> /\ compounds[c].Expand
                       /\ \E i \in DOMAIN target_smiles :
                             get_mcs_overlap(compounds[c].SMILES, target_smiles[i])
                                >= crit_mcs.scalar]_vars


\* the ids of a half reaction, in order, and the sum of its coefficients
IdSeq(half) == [k \in DOMAIN half |-> half[k][2]]

StoichSum(half) == SumSeq([k \in DOMAIN half |-> half[k][1]])

C33_CounterSetAtFinalization ==
    [][/\ last'.step \notin {"save_to_mine", "KeyError: operator"}
          => /\ Reactions_predicted' = Reactions_predicted
             /\ \A n \in DOMAIN Reactions_predicted : Reactions_predicted[n] = 0
       /\ last'.step = "save_to_mine"
          => \A n \in DOMAIN Reactions_predicted' :
                Reactions_predicted'[n]
                   = Cardinality({r \in DOMAIN reactions' : n \in reactions'[r].Operators})]_vars


\* the Expand flag of a checked compound after scoring when increasing_tani
\* is off: false for the score -1, as it was otherwise
ExpandWithoutIncreasing(cpd, gen) ==
    /\ cpd.Expand
    /\ _compare_target_fps(target_fps, CritVal(crit_tani, gen), cpd.SMILES) # -1

\* C34: whenever the Tanimoto filter compares a score with last_tani the
\* recorded value is still 0, so with increasing_tani on every checked
\* compound gets the Expand flag it gets with increasing_tani off, and the
\* removal that follows starts from the same flags.
C34_IncreasingTaniChangesNothing ==
    [][(/\ pc = "loop"
        /\ while_generation(generation, max_generations)
        /\ tani_filter
        /\ increasing_tani
        /\ ~no_targets(target_fps))
       => \A c \in compounds_to_check(compounds, generation) :
             /\ compounds[c].last_tani = 0
             /\ Scored(compounds, generation, "tani")[c].Expand
                   = ExpandWithoutIncreasing(compounds[c], generation)
             /\ c \in DOMAIN compounds' =>
                   compounds'[c].Expand = ExpandWithoutIncreasing(compounds[c], generation)]_vars

\* a Tanimoto filter with increasing_tani on has scored a predicted compound
\* and recorded its similarity, and has failed another one
C34_Witness ==
    /\ last.step = "_filter_by"
    /\ tani_filter /\ increasing_tani
    /\ generation >= 1
    /\ \E c \in DOMAIN compounds :
          /\ compounds[c].Type = "Predicted" /\ compounds[c].Generation = generation
          /\ compounds[c].Expand /\ compounds[c].last_tani > 0
    /\ \/ last.removed # {}
       \/ \E c \in DOMAIN compounds :
             compounds[c].Generation = generation /\ ~compounds[c].Expand


\* a filter block is about to call _filter_by
FilterAboutToRun ==
       \/ pc = "loop" /\ while_generation(generation, max_generations) /\ tani_filter
                      /\ ~no_targets(target_fps)
       \/ /\ pc = "mcs" \/ (pc = "loop" /\ while_generation(generation, max_generations)
                                         /\ ~tani_filter)
          /\ mcs_filter /\ ~no_targets(target_smiles) /\ crit_mcs.isList

\* C35: for a given registry and given similarity scores, the compounds and
\* the reactions that remain after _filter_by are the same for every order
\* in which the reactions touching failed compounds are examined.
C35_FilterResultOrderIndependent ==
    FilterAboutToRun
       => \A o1, o2 \in Perms(rxns_to_check(Scored(compounds, generation, MeasureHere),
                                            generation)) :
             LET r1 == _filter_by(compounds, reactions, generation, MeasureHere, o1)
                 r2 == _filter_by(compounds, reactions, generation, MeasureHere, o2)
             IN /\ r1.err = r2.err
                /\ DOMAIN r1.compounds = DOMAIN r2.compounds
                /\ DOMAIN r1.reactions = DOMAIN r2.reactions


\* C36: every target compound that remains in the registry and had a
\* producing reaction after prune_network still has a producing reaction in
\* the registry when prune_network_to_targets returns.
C36_TargetProducersKept ==
    [][last'.step = "prune_network_to_targets"
       => \A white \in Perms(TargetWhiteList) :
             LET p == prune_network(white, compounds, reactions)
             IN \A t \in TargetWhiteList \cap DOMAIN compounds' :
                   (~p.err /\ ProducersOf({t}, p.reactions) # {})
                      => ProducersOf({t}, reactions') # {}]_vars


\* C37: after prune_network and after prune_network_to_targets, every
\* reaction id in the Product_of or Reactant_in list of a retained compound
\* is a retained reaction, and every compound id in the reactants or products
\* of a retained reaction is a retained compound.
C37_PrunedBackReferencesRetained ==
    last.step \in {"prune_network", "prune_network_to_targets"}
       => /\ \A c \in DOMAIN compounds :
                Range(compounds[c].Product_of) \cup Range(compounds[c].Reactant_in)
                   \subseteq DOMAIN reactions
          /\ \A r \in DOMAIN reactions :
                Ids(reactions[r].Reactants) \cup Ids(reactions[r].Products)
                   \subseteq DOMAIN compounds


\* C38: prune_network retains every whitelisted compound that was in the
\* registry before pruning, also one that no reaction produces.
C38_WhitelistedRetained ==
    [][last'.step = "prune_network"
       => \A c \in white_list' \cap DOMAIN compounds : c \in DOMAIN compounds']_vars


\* C39: after any sequence of expansion rounds with filtering, every
\* compound of type Predicted in the registry is a product of at least one
\* reaction in the registry.
C39_PredictedHasProducer ==
    (pc \in {"loop", "mcs", "select", "expanded"} /\ (tani_filter \/ mcs_filter))
       => \A c \in DOMAIN compounds :
             compounds[c].Type = "Predicted" => ProducersOf({c}, reactions) # {}


\* a filter round has deleted a predicted compound of the generation and has
\* kept another one that failed the filter, which still has its producer
C39_Witness ==
    /\ last.step = "_filter_by"
    /\ generation >= 1
    /\ \E c \in last.removed : startswith(c, "C")
    /\ \E c \in DOMAIN compounds :
          /\ compounds[c].Type = "Predicted"
          /\ compounds[c].Generation = generation
          /\ ~compounds[c].Expand
          /\ ProducersOf({c}, reactions) # {}


\* C40: the Expand flag of a record already in the registry never goes from
\* false to true, whatever the operation, and a compound whose flag is false
\* is not among the structures selected for expansion.
C40_ExpandNeverSetAgain ==
    [][/\ \A c \in DOMAIN compounds \cap DOMAIN compounds' :
             compounds'[c].Expand => compounds[c].Expand
       /\ (pc = "select" /\ compound_smiles' # compound_smiles)
             => \A i \in DOMAIN compound_smiles' :
                   \E c \in DOMAIN compounds :
                      /\ compounds[c].SMILES = compound_smiles'[i]
                      /\ compounds[c].Type \notin {"Coreactant", "Target Compound"}
                      /\ compounds[c].Expand]_vars

\* a compound that failed a filter was kept with Expand false, the next
\* expansion round has run, and the flag is still false
C40_Witness ==
    /\ last.step \in {"full", "partial"}
    /\ generation = 2
    /\ \E c \in DOMAIN compounds :
          /\ compounds[c].Type = "Predicted"
          /\ compounds[c].Generation = 1
          /\ ~compounds[c].Expand
    /\ \E c \in DOMAIN compounds : compounds[c].Generation = 2

=============================================================================
